---------------------------- MODULE Spec2Model ----------------------------
(***************************************************************************)
(* A state-machine model of the ai-NES core: the 6502 interpreter (CPU),   *)
(* the MMC3 cartridge mapper (Mapper004) and the controller shift          *)
(* register (Controller).                                                  *)
(*                                                                         *)
(* The JavaScript methods are translated as operators over a machine       *)
(* record m = [cpu, ram, mmc, pads, io, log]: an operator takes the        *)
(* machine before the call and yields the machine after it (and the value  *)
(* returned, where the method returns one).  m.log is a ghost: the         *)
(* sequence of bus transfers and device calls made so far inside the       *)
(* current top-level call; it never influences the machine.                *)
(***************************************************************************)
EXTENDS Integers, Sequences, FiniteSets, TLC

VARIABLES cpu,    \* the CPU object's fields
          ram,    \* the 2 KiB internal RAM, sparse: absent addresses hold 0
          mmc,    \* the Mapper004 object's fields
          pads,   \* nes.controllers[1], nes.controllers[2]
          prg,    \* the PRG-ROM image (never changes after Init), sparse
          obs,    \* ghost: what the last top-level call did
          hist    \* ghost: history the properties refer to

vars == <<cpu, ram, mmc, pads, prg, obs, hist>>

-----------------------------------------------------------------------------
(* Bit arithmetic on non-negative integers, as the JavaScript operators.   *)

RECURSIVE BitAnd(_, _)
BitAnd(a, b) ==
    IF a = 0 \/ b = 0 THEN 0
    ELSE (IF a % 2 = 1 /\ b % 2 = 1 THEN 1 ELSE 0) + 2 * BitAnd(a \div 2, b \div 2)

RECURSIVE BitOr(_, _)
BitOr(a, b) ==
    IF a = 0 THEN b
    ELSE IF b = 0 THEN a
    ELSE (IF a % 2 = 1 \/ b % 2 = 1 THEN 1 ELSE 0) + 2 * BitOr(a \div 2, b \div 2)

RECURSIVE Pow2(_)
Pow2(n) == IF n = 0 THEN 1 ELSE 2 * Pow2(n - 1)

\* (x >> n) & 1
Bit(x, n) == (x \div Pow2(n)) % 2

\* x with bit n cleared / set
ClearBit(x, n) == x - Bit(x, n) * Pow2(n)
SetBit(x, n) == x + (1 - Bit(x, n)) * Pow2(n)

Byte == 0 .. 255

\* JavaScript's undefined, as returned by a device that does not drive the bus
Undefined == -1

Ev(op, a, v) == [op |-> op, a |-> a, v |-> v]
Log(m, op, a, v) == [m EXCEPT !.log = Append(@, Ev(op, a, v))]

-----------------------------------------------------------------------------
(* Controller (controller.js)                                              *)

NewController ==
    [currentState |-> 0, strobedState |-> 0, strobeByte |-> 0, shiftRegister |-> 0]

\* Controller.read(): the byte returned; the controller is not changed
Controller_read(c) ==
    LET ret == IF c.strobeByte = 1
               THEN c.currentState % 2
               ELSE IF c.shiftRegister < 8
                    THEN Bit(c.strobedState, c.shiftRegister)
                    ELSE 1
    IN  BitOr(64, ret)

\* Controller.clock()
Controller_clock(c) ==
    IF c.strobeByte = 0 /\ c.shiftRegister < 8
    THEN [c EXCEPT !.shiftRegister = @ + 1]
    ELSE c

\* A strobe that latches on every write of a clear bit 0, not on the edge
Controller_strobeLevel(c, data) ==
    LET latched == IF data % 2 = 0
                   THEN [c EXCEPT !.strobedState = c.currentState,
                                  !.shiftRegister = 0]
                   ELSE c
    IN  [latched EXCEPT !.strobeByte = data % 2]

\* Controller.strobe(data)
Controller_strobe(c, data) ==
    LET latched == IF c.strobeByte = 1 /\ data % 2 = 0
                   THEN [c EXCEPT !.strobedState = c.currentState,
                                  !.shiftRegister = 0]
                   ELSE c
    IN  [latched EXCEPT !.strobeByte = data % 2]

\* A duplicate mask that lacks the case of RIGHT
GetDuplicateMaskNoRight(buttonIndex) ==
    CASE buttonIndex = 4 -> 223
      [] buttonIndex = 5 -> 239
      [] buttonIndex = 6 -> 127
      [] OTHER -> 255

\* Controller._getDuplicateMask(buttonIndex)
GetDuplicateMask(buttonIndex) ==
    CASE buttonIndex = 4 -> 223   \* 0xDF
      [] buttonIndex = 5 -> 239   \* 0xEF
      [] buttonIndex = 6 -> 127   \* 0x7F
      [] buttonIndex = 7 -> 191   \* 0xBF
      [] OTHER -> 255

\* Controller.buttonDown(button)
Controller_buttonDown(c, button) ==
    [c EXCEPT !.currentState =
        BitAnd(BitOr(c.currentState, Pow2(button)), GetDuplicateMask(button))]

\* Controller.buttonUp(button)
Controller_buttonUp(c, button) ==
    [c EXCEPT !.currentState = BitAnd(c.currentState, 255 - Pow2(button))]

-----------------------------------------------------------------------------
(* Interrupt latch and DMA stall of the CPU (compatibility.js)             *)

IRQ_NORMAL == 0
IRQ_NMI == 1
IRQ_RESET == 2

\* requestIrq with a latch that keeps the first request of any type
requestIrqKeepFirst(m, type) ==
    LET l == Log(m, "requestIrq", type, 0)
    IN  IF m.cpu.irqRequested
        THEN l
        ELSE [l EXCEPT !.cpu.irqRequested = TRUE, !.cpu.irqType = type]

\* CPU.requestIrq(type)
requestIrq(m, type) ==
    LET l == Log(m, "requestIrq", type, 0)
    IN  IF m.cpu.irqRequested /\ type = IRQ_NORMAL
        THEN l
        ELSE [l EXCEPT !.cpu.irqRequested = TRUE, !.cpu.irqType = type]

\* CPU.clearIrq(type)
clearIrq(m, type) ==
    LET l == Log(m, "clearIrq", type, 0)
    IN  IF m.cpu.irqRequested /\ m.cpu.irqType = type
        THEN [l EXCEPT !.cpu.irqRequested = FALSE]
        ELSE l

\* A stall request that replaces the remaining stall instead of adding to it
haltCyclesReplace(m, cycles) == [m EXCEPT !.cpu.cyclesToHalt = cycles]

\* CPU.haltCycles(cycles)
haltCycles(m, cycles) == [m EXCEPT !.cpu.cyclesToHalt = @ + cycles]

-----------------------------------------------------------------------------
(* Mapper004 (MMC3)                                                        *)

\* The geometry of the cartridge image: get8kPrgBankCount() and
\* get1kChrBankCount() of the mapper base class.
PrgBankCount8k == 4
ChrBankCount1k == 8

\* The byte a PRG-ROM image holds where the program images below define none
\* (0xEA, NOP).
PrgFill == 234

\* prgData[offset]; out of the array JavaScript yields undefined
PrgData(offset) ==
    IF offset < 0 \/ offset >= PrgBankCount8k * 8192 THEN Undefined
    ELSE IF offset \in DOMAIN prg THEN prg[offset]
    ELSE PrgFill

\* get8kPrgBankCount() and get1kChrBankCount() on the mapper object mc: the
\* counts of the cartridge it was built on, where the object carries them
\* (prgBanks, chrBanks), and of the image above otherwise
get8kPrgBankCount(mc) ==
    IF "prgBanks" \in DOMAIN mc THEN mc.prgBanks ELSE PrgBankCount8k
get1kChrBankCount(mc) ==
    IF "chrBanks" \in DOMAIN mc THEN mc.chrBanks ELSE ChrBankCount1k

\* An updateBanks that takes the PRG registers modulo 64 instead of under
\* the bank-count mask
updateBanksNoMask(mc) ==
    [mc EXCEPT
       !.prgOffsets = IF mc.prgMode = 0
                      THEN (0 :> (mc.reg[6] % 64) * 8192) @@
                           (1 :> (mc.reg[7] % 64) * 8192) @@
                           (2 :> (get8kPrgBankCount(mc) - 2) * 8192) @@
                           (3 :> (get8kPrgBankCount(mc) - 1) * 8192)
                      ELSE (0 :> (get8kPrgBankCount(mc) - 2) * 8192) @@
                           (1 :> (mc.reg[7] % 64) * 8192) @@
                           (2 :> (mc.reg[6] % 64) * 8192) @@
                           (3 :> (get8kPrgBankCount(mc) - 1) * 8192)]

\* Mapper004.updateBanks()
updateBanks(mc) ==
    LET chrCount == get1kChrBankCount(mc)
        prgCount == get8kPrgBankCount(mc)
        chrMask == IF chrCount > 0 THEN chrCount - 1 ELSE 0
        prgMask == IF prgCount > 0 THEN prgCount - 1 ELSE 0
        r == mc.reg
        two0a == BitAnd(BitAnd(r[0], 254), chrMask) * 1024
        two0b == BitAnd(BitOr(r[0], 1), chrMask) * 1024
        two1a == BitAnd(BitAnd(r[1], 254), chrMask) * 1024
        two1b == BitAnd(BitOr(r[1], 1), chrMask) * 1024
        one(i) == BitAnd(r[i], chrMask) * 1024
        chr == IF mc.chrMode = 0
               THEN (0 :> two0a) @@ (1 :> two0b) @@ (2 :> two1a) @@ (3 :> two1b) @@
                    (4 :> one(2)) @@ (5 :> one(3)) @@ (6 :> one(4)) @@ (7 :> one(5))
               ELSE (0 :> one(2)) @@ (1 :> one(3)) @@ (2 :> one(4)) @@ (3 :> one(5)) @@
                    (4 :> two0a) @@ (5 :> two0b) @@ (6 :> two1a) @@ (7 :> two1b)
        p6 == BitAnd(r[6], prgMask) * 8192
        p7 == BitAnd(r[7], prgMask) * 8192
        secondLast == (prgCount - 2) * 8192
        last == (prgCount - 1) * 8192
        prgo == IF mc.prgMode = 0
                THEN (0 :> p6) @@ (1 :> p7) @@ (2 :> secondLast) @@ (3 :> last)
                ELSE (0 :> secondLast) @@ (1 :> p7) @@ (2 :> p6) @@ (3 :> last)
    IN  [mc EXCEPT !.chrOffsets = chr, !.prgOffsets = prgo]

\* A reset that clears the bank registers, as a power-on does
Mapper004_resetClear(mc) ==
    updateBanks([mc EXCEPT !.reg = [i \in 0 .. 7 |-> 0], !.prgMode = 0,
                           !.chrMode = 0, !.bankSelect = 0])

\* Mapper004.reset()
Mapper004_reset(mc) ==
    [mc EXCEPT !.prgOffsets[3] = (get8kPrgBankCount(mc) - 1) * 8192]

\* Mapper004.loadROM(): the mapper's fields at power-on
Mapper004_loadROM ==
    Mapper004_reset(updateBanks(
        [mapper |-> 4,
         reg |-> [i \in 0 .. 7 |-> 0], prgMode |-> 0, chrMode |-> 0, bankSelect |-> 0,
         irqEnabled |-> FALSE, irqCounter |-> 0, irqLatch |-> 0, irqReload |-> FALSE,
         prgRamEnabled |-> TRUE, prgRamWriteProtect |-> FALSE,
         prgRam |-> <<>>,
         prgOffsets |-> [i \in 0 .. 3 |-> 0], chrOffsets |-> [i \in 0 .. 7 |-> 0]]))

\* A sparse byte array whose absent cells hold 0
Cell(mem, a) == IF a \in DOMAIN mem THEN mem[a] ELSE 0
Store(mem, a, v) ==
    IF v = 0
    THEN [x \in DOMAIN mem \ {a} |-> mem[x]]
    ELSE [x \in DOMAIN mem \cup {a} |-> IF x = a THEN v ELSE mem[x]]

\* The Mapper 47 masking of Mapper047.updateBanks(): the offsets of Mapper004
\* confined to the selected 128 KiB block (16 PRG banks of 8 KiB, 128 CHR
\* banks of 1 KiB)
Mapper047_confine(b, block) ==
    [b EXCEPT
       !.prgOffsets = [i \in 0 .. 3 |->
           (((b.prgOffsets[i] \div 8192) % 16) + 16 * block) * 8192],
       !.chrOffsets = [i \in 0 .. 7 |->
           (((b.chrOffsets[i] \div 1024) % 128) + 128 * block) * 1024]]

\* Mapper047.updateBanks(): super.updateBanks(), then the masking
Mapper047_updateBanks(mc) == Mapper047_confine(updateBanks(mc), mc.block)

\* What the class of the mapper object adds to the offsets b that
\* Mapper004.updateBanks() has computed
overriddenBanks(b) ==
    IF b.mapper = 47 THEN Mapper047_confine(b, b.block) ELSE b

\* this.updateBanks(), as a method of the mapper object mc: every class here
\* runs Mapper004.updateBanks(), Mapper047 as the super call of its own
this_updateBanks(mc) == overriddenBanks(updateBanks(mc))

\* A bank data write that leaves the new register value to the next
\* updateBanks()
WriteBankLazy(m, reg, data) ==
    IF reg = 0
    THEN [m EXCEPT !.mmc = this_updateBanks([@ EXCEPT !.prgMode = Bit(data, 6),
                                                      !.chrMode = Bit(data, 7),
                                                      !.bankSelect = data % 8])]
    ELSE [m EXCEPT !.mmc.reg[m.mmc.bankSelect] = data]

\* Mapper004.cpuWrite, case 0x8000: bank select / bank data
WriteBank(m, reg, data) ==
    IF reg = 0
    THEN [m EXCEPT !.mmc = this_updateBanks([@ EXCEPT !.prgMode = Bit(data, 6),
                                                      !.chrMode = Bit(data, 7),
                                                      !.bankSelect = data % 8])]
    ELSE [m EXCEPT !.mmc = this_updateBanks([@ EXCEPT !.reg[m.mmc.bankSelect] = data])]

\* Mapper004.cpuWrite, case 0xA000: mirroring / PRG-RAM protect
\* (the cartridge is not four-screen; the PPU records the mirroring)
WriteMirrorProtect(m, reg, data) ==
    IF reg = 0
    THEN Log(m, "setMirroring", data % 2, 0)
    ELSE [m EXCEPT !.mmc.prgRamEnabled = (BitAnd(data, 128) # 0),
                   !.mmc.prgRamWriteProtect = (BitAnd(data, 64) # 0)]

\* Mapper004.cpuWrite, case 0xC000: IRQ latch / reload
WriteIrqLatch(m, reg, data) ==
    IF reg = 0
    THEN [m EXCEPT !.mmc.irqLatch = data]
    ELSE [m EXCEPT !.mmc.irqReload = TRUE]

\* The IRQ enable register without the acknowledge of the pending IRQ
WriteIrqEnableNoAck(m, reg) ==
    IF reg = 0
    THEN [m EXCEPT !.mmc.irqEnabled = FALSE]
    ELSE [m EXCEPT !.mmc.irqEnabled = TRUE]

\* Mapper004.cpuWrite, case 0xE000: IRQ disable (and acknowledge) / enable
WriteIrqEnable(m, reg) ==
    IF reg = 0
    THEN clearIrq([m EXCEPT !.mmc.irqEnabled = FALSE], IRQ_NORMAL)
    ELSE [m EXCEPT !.mmc.irqEnabled = TRUE]

\* Mapper004.cpuWrite(address, data)
Mapper004_cpuWrite(m, address, data) ==
    IF address >= 24576 /\ address < 32768
    THEN IF m.mmc.prgRamEnabled /\ ~m.mmc.prgRamWriteProtect
         THEN [m EXCEPT !.mmc.prgRam = Store(@, address - 24576, data)]
         ELSE m
    ELSE IF address < 32768 THEN m
    ELSE LET reg == address % 2
             base == ((address \div 8192) % 8) * 8192   \* address & 0xE000
         IN  CASE base = 32768 -> WriteBank(m, reg, data)
               [] base = 40960 -> WriteMirrorProtect(m, reg, data)
               [] base = 49152 -> WriteIrqLatch(m, reg, data)
               [] base = 57344 -> WriteIrqEnable(m, reg)
               [] OTHER -> m

\* Mapper004.cpuRead(address)
Mapper004_cpuRead(m, address) ==
    IF address >= 24576 /\ address < 32768
    THEN IF ~m.mmc.prgRamEnabled THEN (address \div 256) % 256
         ELSE Cell(m.mmc.prgRam, address - 24576)
    ELSE IF address >= 32768
    THEN LET slot == (address \div 8192) % 4
             offset == address % 8192
         IN  PrgData(m.mmc.prgOffsets[slot] + offset)
    ELSE Undefined

\* A scanline counter that asserts the IRQ whenever the edge leaves it at
\* zero, reloads included
clockScanlineNewRevision(m) ==
    LET next == IF m.mmc.irqCounter = 0 \/ m.mmc.irqReload
                THEN m.mmc.irqLatch ELSE m.mmc.irqCounter - 1
        c == [m EXCEPT !.mmc.irqCounter = next, !.mmc.irqReload = FALSE]
    IN  IF next = 0 /\ m.mmc.irqEnabled THEN requestIrq(c, IRQ_NORMAL) ELSE c

\* A scanline counter that never clears its reload flag
clockScanlineStickyReload(m) ==
    IF m.mmc.irqCounter = 0 \/ m.mmc.irqReload
    THEN [m EXCEPT !.mmc.irqCounter = m.mmc.irqLatch]
    ELSE LET d == [m EXCEPT !.mmc.irqCounter = @ - 1]
         IN  IF d.mmc.irqCounter = 0 /\ d.mmc.irqEnabled
             THEN requestIrq(d, IRQ_NORMAL)
             ELSE d

\* A scanline counter that reloads on the edge that takes it to zero
clockScanlineEagerReload(m) ==
    IF m.mmc.irqCounter = 0 \/ m.mmc.irqReload
    THEN [m EXCEPT !.mmc.irqCounter = m.mmc.irqLatch, !.mmc.irqReload = FALSE]
    ELSE IF m.mmc.irqCounter = 1
         THEN LET d == [m EXCEPT !.mmc.irqCounter = m.mmc.irqLatch]
              IN  IF d.mmc.irqEnabled THEN requestIrq(d, IRQ_NORMAL) ELSE d
         ELSE [m EXCEPT !.mmc.irqCounter = @ - 1]

\* Mapper004.clockScanline(): called by the PPU on each rising edge of A12
clockScanline(m) ==
    IF m.mmc.irqCounter = 0 \/ m.mmc.irqReload
    THEN [m EXCEPT !.mmc.irqCounter = m.mmc.irqLatch, !.mmc.irqReload = FALSE]
    ELSE LET d == [m EXCEPT !.mmc.irqCounter = @ - 1]
         IN  IF d.mmc.irqCounter = 0 /\ d.mmc.irqEnabled
             THEN requestIrq(d, IRQ_NORMAL)
             ELSE d

-----------------------------------------------------------------------------
(* Mapper006 (MMC6), a Mapper004 with 1 KiB of RAM and its own RAM control *)

\* Mapper006.loadROM(): the fields of Mapper004 at power-on and ramControl
\* as Mapper006.reset() sets it
Mapper006_loadROM ==
    [f \in DOMAIN Mapper004_loadROM \cup {"ramControl"} |->
        IF f = "ramControl" THEN 240
        ELSE IF f = "mapper" THEN 6
        ELSE Mapper004_loadROM[f]]

\* Mapper006.cpuRead(address)
Mapper006_cpuRead(m, address) ==
    IF address >= 28672 /\ address < 32768
    THEN LET offset == address % 1024
             enable == IF offset < 512 THEN 6 ELSE 7
         IN  IF Bit(m.mmc.ramControl, enable) = 1
             THEN Cell(m.mmc.prgRam, offset)
             ELSE (address \div 256) % 256
    ELSE IF address >= 24576 /\ address < 28672
    THEN (address \div 256) % 256
    ELSE Mapper004_cpuRead(m, address)

\* An MMC6 whose RAM is not mirrored: the byte goes to address - $7000
Mapper006_cpuWriteNoMirror(m, address, data, super) ==
    IF address >= 28672 /\ address < 32768
    THEN IF Bit(m.mmc.ramControl, IF address % 1024 < 512 THEN 4 ELSE 5) = 1
         THEN [m EXCEPT !.mmc.prgRam = Store(@, address - 28672, data)]
         ELSE m
    ELSE IF address >= 24576 /\ address < 28672
    THEN m
    ELSE IF (address \div 8192) % 8 = 5 /\ address % 2 = 1
    THEN [m EXCEPT !.mmc.ramControl = data]
    ELSE super

\* Mapper006.cpuWrite(address, data); super is what super.cpuWrite(address,
\* data) leaves, used in the branch that calls it
Mapper006_cpuWrite(m, address, data, super) ==
    IF address >= 28672 /\ address < 32768
    THEN LET offset == address % 1024
             enable == IF offset < 512 THEN 4 ELSE 5
         IN  IF Bit(m.mmc.ramControl, enable) = 1
             THEN [m EXCEPT !.mmc.prgRam = Store(@, offset, data)]
             ELSE m
    ELSE IF address >= 24576 /\ address < 28672
    THEN m
    ELSE IF (address \div 8192) % 8 = 5 /\ address % 2 = 1   \* & 0xE001 = 0xA001
    THEN [m EXCEPT !.mmc.ramControl = data]
    ELSE super

-----------------------------------------------------------------------------
(* Mapper206 (DxROM), a Mapper004 without IRQ, mode bits and PRG-RAM        *)

\* A DxROM whose $8000 write takes the mode bits as the MMC3 does
Mapper206_cpuWriteModes(m, address, data) ==
    IF address >= 32768 /\ address <= 40959 /\ address % 2 = 0
    THEN [m EXCEPT !.mmc = this_updateBanks([@ EXCEPT !.bankSelect = data % 8,
                                                      !.prgMode = Bit(data, 6),
                                                      !.chrMode = Bit(data, 7)])]
    ELSE m

\* Mapper206.reset()
Mapper206_reset(mc) ==
    [this_updateBanks([Mapper004_reset(mc) EXCEPT !.prgMode = 0, !.chrMode = 0])
        EXCEPT !.prgRamEnabled = FALSE, !.prgRamWriteProtect = TRUE]

\* Mapper206.cpuWrite(address, data)
Mapper206_cpuWrite(m, address, data) ==
    IF address >= 32768 /\ address <= 40959
    THEN IF address % 2 = 0
         THEN [m EXCEPT !.mmc = this_updateBanks([@ EXCEPT !.bankSelect = data % 8,
                                                           !.prgMode = 0,
                                                           !.chrMode = 0])]
         ELSE [m EXCEPT !.mmc = this_updateBanks(
                  [@ EXCEPT !.reg[m.mmc.bankSelect] =
                      CASE m.mmc.bankSelect \in {0, 1} -> BitAnd(data, 254)
                        [] m.mmc.bankSelect \in {6, 7} -> data % 64
                        [] OTHER -> data])]
    ELSE m

-----------------------------------------------------------------------------
(* Mapper002 (UNROM); the cpuRead of Mapper003, 007, 011, 034, 066 and 079 *)
(* is the same code                                                        *)

\* switch16kPrgBank(bank, low) of the mapper base class: a 16 KiB bank of the
\* image is placed in the low or the high half of $8000-$FFFF
switch16kPrgBank(mc, bank, low) ==
    LET start == (bank % (PrgBankCount8k \div 2)) * 16384
        slot == IF low THEN 0 ELSE 2
    IN  [mc EXCEPT !.prgPagesMap[slot] = start, !.prgPagesMap[slot + 1] = start + 8192]

\* Mapper002.updateBanks()
Mapper002_updateBanks(mc) ==
    switch16kPrgBank(switch16kPrgBank(mc, mc.prgBank, TRUE),
                     (PrgBankCount8k \div 2) - 1, FALSE)

\* Mapper002.reset() on the mapper object mc (the mirroring it hands to the
\* PPU is not kept here)
Mapper002_resetOn(mc) == Mapper002_updateBanks([mc EXCEPT !.prgBank = 0])

\* Mapper002.constructor: the mapper's fields at power-on
Mapper002_reset ==
    Mapper002_resetOn([mapper |-> 2, prgBank |-> 0,
                       prgPagesMap |-> [i \in 0 .. 3 |-> 0]])

\* A cartridge read that drives the bus below $8000 with the high byte of the
\* address
Mapper002_cpuReadHighByte(m, address) ==
    IF address >= 32768
    THEN PrgData(m.mmc.prgPagesMap[(address \div 8192) % 4] + (address % 8192))
    ELSE (address \div 256) % 256

\* Mapper002.cpuRead(address)
Mapper002_cpuRead(m, address) ==
    IF address >= 32768
    THEN LET slot == (address \div 8192) % 4
             offset == address % 8192
         IN  PrgData(m.mmc.prgPagesMap[slot] + offset)
    ELSE Undefined

\* Mapper002.cpuWrite(address, data)
Mapper002_cpuWrite(m, address, data) ==
    IF address >= 32768
    THEN [m EXCEPT !.mmc = Mapper002_updateBanks([@ EXCEPT !.prgBank = data])]
    ELSE m

\* Mapper002.toJSON(): the bank register (and the CHR-RAM, which is not kept
\* here)
Mapper002_toJSON(mc) == [prgBank |-> mc.prgBank]

\* Mapper002.fromJSON(state)
Mapper002_fromJSON(mc, state) ==
    Mapper002_updateBanks([mc EXCEPT !.prgBank = state.prgBank])

-----------------------------------------------------------------------------
(* Mapper000 (NROM)                                                        *)

\* switch32kPrgBank(bank) of the mapper base class: a 32 KiB bank of the
\* image is placed at $8000-$FFFF
switch32kPrgBank(mc, bank) ==
    LET start == (bank % (PrgBankCount8k \div 4)) * 32768
    IN  [mc EXCEPT !.prgPagesMap = [i \in 0 .. 3 |-> start + i * 8192]]

\* Mapper000.reset() on the mapper object mc, the image being of 32 KiB (the
\* CHR map and the mirroring it hands to the PPU are not kept here)
Mapper000_resetOn(mc) == switch32kPrgBank(mc, 0)

\* Mapper000.constructor: the mapper's fields at power-on
Mapper000_reset ==
    Mapper000_resetOn([mapper |-> 0, prgRam |-> <<>>,
                       prgPagesMap |-> [i \in 0 .. 3 |-> 0]])

\* Mapper000.cpuRead(address)
Mapper000_cpuRead(m, address) ==
    IF address >= 24576 /\ address < 32768
    THEN Cell(m.mmc.prgRam, address - 24576)
    ELSE IF address >= 32768
    THEN LET slot == (address \div 8192) % 4
             offsetInSlot == address % 8192
         IN  PrgData(m.mmc.prgPagesMap[slot] + offsetInSlot)
    ELSE Undefined

\* Mapper000.cpuWrite(address, data)
Mapper000_cpuWrite(m, address, data) ==
    IF address >= 24576 /\ address < 32768
    THEN [m EXCEPT !.mmc.prgRam = Store(@, address - 24576, data)]
    ELSE m

\* Mapper000.toJSON()
Mapper000_toJSON(mc) == [prgRam |-> mc.prgRam]

\* Mapper000.fromJSON(state): the PRG-RAM is replaced if the state has one
Mapper000_fromJSON(mc, state) ==
    IF "prgRam" \in DOMAIN state THEN [mc EXCEPT !.prgRam = state.prgRam] ELSE mc

-----------------------------------------------------------------------------
(* Mapper047 (two 128 KiB blocks on an MMC3) and the save state of MMC3    *)

\* Mapper047.reset()
Mapper047_reset(mc) ==
    Mapper047_updateBanks([Mapper004_reset(mc) EXCEPT !.block = 0])

\* Mapper047 at power-on: the constructor sets block, loadROM of Mapper004
\* calls this.updateBanks() and this.reset()
Mapper047_loadROM ==
    Mapper047_reset(Mapper047_updateBanks(
        [f \in DOMAIN Mapper004_loadROM \cup {"block"} |->
            IF f = "block" THEN 0
            ELSE IF f = "mapper" THEN 47
            ELSE Mapper004_loadROM[f]]))

\* Mapper047.cpuWrite(address, value); super is what super.cpuWrite(address,
\* value) leaves, used in the branch that calls it
Mapper047_cpuWrite(m, address, value, super) ==
    IF address >= 24576 /\ address <= 32767
    THEN [m EXCEPT !.mmc = this_updateBanks([@ EXCEPT !.block = value % 2])]
    ELSE super

\* The fields Mapper004.toJSON() writes and Mapper004.fromJSON() reads
Mapper004_saved ==
    {"reg", "prgMode", "chrMode", "bankSelect", "irqEnabled", "irqCounter",
     "irqLatch", "irqReload", "prgRamEnabled", "prgRamWriteProtect", "prgRam"}

\* Mapper004.toJSON(), which Mapper047 inherits
Mapper004_toJSON(mc) == [f \in Mapper004_saved |-> mc[f]]

\* Mapper004.fromJSON(state), which Mapper047 inherits: the saved fields are
\* assigned and this.updateBanks() is called
Mapper004_fromJSON(mc, state) ==
    this_updateBanks([f \in DOMAIN mc |->
                         IF f \in Mapper004_saved THEN state[f] ELSE mc[f]])

\* Mapper006.reset()
Mapper006_reset(mc) == [Mapper004_reset(mc) EXCEPT !.ramControl = 240]

\* Mapper006.toJSON(): super.toJSON() and ramControl
Mapper006_toJSON(mc) ==
    [f \in Mapper004_saved \cup {"ramControl"} |-> mc[f]]

\* Mapper006.fromJSON(s): super.fromJSON(s); ramControl is the saved one, $F0
\* when the state has none; of a PRG-RAM that is not 1024 bytes long the
\* first 1024 bytes are kept
Mapper006_fromJSON(mc, s) ==
    [Mapper004_fromJSON(mc, s) EXCEPT
        !.ramControl = IF "ramControl" \in DOMAIN s THEN s.ramControl ELSE 240,
        !.prgRam = [x \in {a \in DOMAIN s.prgRam : a < 1024} |-> s.prgRam[x]]]

-----------------------------------------------------------------------------
(* Mapper025 (VRC4)                                                        *)

\* switch8kPrgBank(bank, slot) of the mapper base class: an 8 KiB bank of the
\* image is placed in one of the four slots of $8000-$FFFF
switch8kPrgBank(mc, bank, slot) ==
    [mc EXCEPT !.prgPagesMap[slot] = (bank % PrgBankCount8k) * 8192]

\* Mapper025.updatePrgBanks()
updatePrgBanks(mc) ==
    LET secondLast == PrgBankCount8k - 2
        b8 == IF mc.programMode = 0 THEN mc.prgRegs[0] ELSE secondLast
        bC == IF mc.programMode = 0 THEN secondLast ELSE mc.prgRegs[0]
    IN  switch8kPrgBank(switch8kPrgBank(switch8kPrgBank(switch8kPrgBank(
            mc, b8, 0), mc.prgRegs[1], 1), bC, 2), PrgBankCount8k - 1, 3)

\* Mapper025.constructor: registers, IRQ unit and address pins
\* (VRC4b: A0, A1; VRC4d has the two exchanged).  The CHR page map of the
\* base class is not kept, the CHR registers are.
Mapper025_constructor ==
    [mapper |-> 25, prgRam |-> <<>>,
     prgPagesMap |-> [i \in 0 .. 3 |-> 0],
     prgRegs |-> [i \in 0 .. 1 |-> 0], programMode |-> 0,
     chrRegs |-> [i \in 0 .. 7 |-> 0], mirroringReg |-> 0,
     irqLatch |-> 0, irqCounter |-> 0, irqEnabled |-> FALSE,
     irqEnabledAfterAck |-> FALSE, irqMode |-> 0, prescaler |-> 0,
     pinA0 |-> 1, pinA1 |-> 2]

\* Mapper025.reset() on the machine m (no battery RAM)
Mapper025_resetOn(m) ==
    Log([m EXCEPT !.mmc = [updatePrgBanks([@ EXCEPT !.prgRegs = [i \in 0 .. 1 |-> 0],
                                                    !.programMode = 0])
                              EXCEPT !.chrRegs = [i \in 0 .. 7 |-> 0],
                                     !.mirroringReg = 0,
                                     !.irqEnabled = FALSE,
                                     !.irqCounter = 0,
                                     !.prescaler = 0]],
        "setMirroring", 0, 0)

\* The mapper object after the constructor and the first reset()
Mapper025_reset ==
    Mapper025_resetOn([mmc |-> Mapper025_constructor, log |-> <<>>]).mmc

\* Mapper025.getRegisterAddress(address)
getRegisterAddress(mc, address) ==
    LET a0 == IF BitAnd(address % 4, mc.pinA0) # 0 THEN 1 ELSE 0
        a1 == IF BitAnd(address % 4, mc.pinA1) # 0 THEN 1 ELSE 0
    IN  (address \div 4096) * 4096 + a0 + 2 * a1

\* Mapper025.cpuRead(address)
Mapper025_cpuRead(m, address) ==
    IF address >= 24576 /\ address < 32768
    THEN Cell(m.mmc.prgRam, address - 24576)
    ELSE IF address >= 32768
    THEN LET slot == (address \div 8192) % 4
             offset == address % 8192
         IN  PrgData(m.mmc.prgPagesMap[slot] + offset)
    ELSE Undefined

\* Mapper025.writeChrReg(baseChrIndex, regIndex, value)
writeChrReg(mc, baseChrIndex, regIndex, value) ==
    LET chrSlot == baseChrIndex + ((regIndex \div 2) % 2)
    IN  IF regIndex % 2 = 1
        THEN [mc EXCEPT !.chrRegs[chrSlot] = (@ % 16) + 16 * (value % 16)]
        ELSE [mc EXCEPT !.chrRegs[chrSlot] = (@ \div 16) * 16 + (value % 16)]

\* Mapper025.cpuWrite, case 0xF002: IRQ control
writeIrqControl(m, value) ==
    clearIrq([m EXCEPT !.mmc.irqEnabledAfterAck = (value % 2 = 1),
                       !.mmc.irqEnabled = (Bit(value, 1) = 1),
                       !.mmc.irqMode = Bit(value, 2),
                       !.mmc.irqCounter =
                           IF Bit(value, 1) = 1 THEN m.mmc.irqLatch ELSE @,
                       !.mmc.prescaler = IF Bit(value, 1) = 1 THEN 341 ELSE @],
             IRQ_NORMAL)

\* Mapper025.cpuWrite(address, value), the register switch
writeRegister(m, regAddress, value) ==
    LET base == regAddress \div 4096
        regIndex == regAddress % 4
    IN  CASE base = 8 ->
               [m EXCEPT !.mmc = updatePrgBanks([@ EXCEPT !.prgRegs[0] = value % 32])]
          [] base = 9 /\ regIndex < 2 ->
               Log([m EXCEPT !.mmc.mirroringReg = value % 4],
                   "setMirroring", value % 4, 0)
          [] base = 9 /\ regIndex >= 2 ->
               [m EXCEPT !.mmc = updatePrgBanks([@ EXCEPT !.programMode = Bit(value, 1)])]
          [] base = 10 ->
               [m EXCEPT !.mmc = updatePrgBanks([@ EXCEPT !.prgRegs[1] = value % 32])]
          [] base \in 11 .. 14 ->
               [m EXCEPT !.mmc = writeChrReg(@, 2 * (base - 11), regIndex, value)]
          [] regAddress = 61440 ->
               [m EXCEPT !.mmc.irqLatch = (@ \div 16) * 16 + (value % 16)]
          [] regAddress = 61441 ->
               [m EXCEPT !.mmc.irqLatch = (@ % 16) + 16 * (value % 16)]
          [] regAddress = 61442 -> writeIrqControl(m, value)
          [] regAddress = 61443 ->
               clearIrq([m EXCEPT !.mmc.irqEnabled = m.mmc.irqEnabledAfterAck],
                        IRQ_NORMAL)

\* Mapper025.cpuWrite(address, value)
Mapper025_cpuWrite(m, address, value) ==
    CASE address < 24576 -> m
      [] address >= 24576 /\ address < 32768 ->
           [m EXCEPT !.mmc.prgRam = Store(@, address - 24576, value)]
      [] OTHER -> writeRegister(m, getRegisterAddress(m.mmc, address), value)

\* A counter clock that wraps from $FF to 0 without reload or IRQ
clockIrqCounterWrap(m) == [m EXCEPT !.mmc.irqCounter = (@ + 1) % 256]

\* Mapper025.cpuClock: one clock of the IRQ counter
clockIrqCounter(m) ==
    IF m.mmc.irqCounter = 255
    THEN requestIrq([m EXCEPT !.mmc.irqCounter = m.mmc.irqLatch], IRQ_NORMAL)
    ELSE [m EXCEPT !.mmc.irqCounter = @ + 1]

\* Mapper025.cpuClock: while (this.prescaler <= 0) of the scanline mode
RECURSIVE scanlineClocks(_)
scanlineClocks(m) ==
    IF m.mmc.prescaler <= 0
    THEN scanlineClocks(clockIrqCounter([m EXCEPT !.mmc.prescaler = @ + 341]))
    ELSE m

\* Mapper025.cpuClock: for (i < cpuCycles) of the cycle mode, n counter
\* clocks one after the other: the first half of them, then the rest. The
\* test on the counter (never negative) makes the first half a value before
\* the second half starts, which keeps the evaluation shallow.
RECURSIVE cycleClocks(_, _)
cycleClocks(m, n) ==
    IF n <= 0 THEN m
    ELSE IF n = 1 THEN clockIrqCounter(m)
    ELSE LET half == cycleClocks(m, n \div 2)
         IN  IF half.mmc.irqCounter >= 0
             THEN cycleClocks(half, n - (n \div 2))
             ELSE half

\* A cpuClock whose scanline prescaler restarts at 341 when it runs out
cpuClockRestart(m, cpuCycles) ==
    IF ~m.mmc.irqEnabled THEN m
    ELSE IF m.mmc.irqMode = 0
    THEN IF m.mmc.prescaler - 3 * cpuCycles <= 0
         THEN clockIrqCounter([m EXCEPT !.mmc.prescaler = 341])
         ELSE [m EXCEPT !.mmc.prescaler = @ - 3 * cpuCycles]
    ELSE cycleClocks(m, cpuCycles)

\* Mapper025.cpuClock(cpuCycles)
cpuClock(m, cpuCycles) ==
    IF ~m.mmc.irqEnabled THEN m
    ELSE IF m.mmc.irqMode = 0
    THEN scanlineClocks([m EXCEPT !.mmc.prescaler = @ - 3 * cpuCycles])
    ELSE cycleClocks(m, cpuCycles)

-----------------------------------------------------------------------------
(* this.nes.mmap: the mapper of the loaded cartridge                       *)

\* this.nes.mmap.cpuRead(addr)
mmap_cpuRead(m, addr) ==
    CASE m.mmc.mapper = 0 -> Mapper000_cpuRead(m, addr)
      [] m.mmc.mapper = 2 -> Mapper002_cpuRead(m, addr)
      [] m.mmc.mapper = 6 -> Mapper006_cpuRead(m, addr)
      [] m.mmc.mapper = 25 -> Mapper025_cpuRead(m, addr)
      [] OTHER -> Mapper004_cpuRead(m, addr)

\* cpuWrite of the MMC3 and of the classes that extend it: the method of
\* the subclass runs, with super.cpuWrite being Mapper004.cpuWrite
Mmc3_cpuWrite(m, addr, val, super) ==
    CASE m.mmc.mapper = 6 -> Mapper006_cpuWrite(m, addr, val, super)
      [] m.mmc.mapper = 47 -> Mapper047_cpuWrite(m, addr, val, super)
      [] m.mmc.mapper = 206 -> Mapper206_cpuWrite(m, addr, val)
      [] OTHER -> super

\* this.nes.mmap.cpuWrite(addr, val)
mmap_cpuWrite(m, addr, val) ==
    CASE m.mmc.mapper = 0 -> Mapper000_cpuWrite(Log(m, "mmapWrite", addr, val), addr, val)
      [] m.mmc.mapper = 2 -> Mapper002_cpuWrite(Log(m, "mmapWrite", addr, val), addr, val)
      [] m.mmc.mapper = 25 -> Mapper025_cpuWrite(Log(m, "mmapWrite", addr, val), addr, val)
      [] OTHER -> Mmc3_cpuWrite(Log(m, "mmapWrite", addr, val), addr, val,
                     Mapper004_cpuWrite(Log(m, "mmapWrite", addr, val), addr, val))

-----------------------------------------------------------------------------
(* The CPU bus (compatibility.js)                                          *)

\* The bytes the devices outside this model (PPU registers, APU registers,
\* Zapper sensor) hand to the bus during one call; inputs of the call.
NoIo == [ppu |-> 0, apu |-> Undefined, light |-> FALSE, fired |-> FALSE]

\* CPU.cpuRead(addr): [m |-> the machine after the read, v |-> the value]
cpuRead(m, addr) ==
    LET \* the data bus latch takes the value read
        latch(mm, v) ==
            [m |-> Log([mm EXCEPT !.cpu.dataBus = v], "read", addr, v), v |-> v]
        orBus(value) == IF value = Undefined THEN m.cpu.dataBus ELSE value
        zapper(ret) ==
            BitOr(IF ~m.io.light THEN BitOr(ret, 8) ELSE ret,
                  IF ~m.io.fired THEN 16 ELSE 0)
    IN  IF addr < 8192
        THEN latch(m, Cell(m.ram, addr % 2048))
        ELSE IF addr < 16384
        THEN latch(Log(Log(m, "catchUp", 0, 0), "ppuRead", addr % 8, m.io.ppu),
                   m.io.ppu)
        ELSE IF addr < 16416
        THEN IF addr = 16406
             THEN latch([m EXCEPT !.cpu.controller1Read = TRUE],
                        Controller_read(m.pads[1]))
             ELSE IF addr = 16407
             THEN latch([Log(m, "catchUp", 0, 0) EXCEPT !.cpu.controller2Read = TRUE],
                        zapper(Controller_read(m.pads[2])))
             ELSE latch(Log(m, "apuRead", addr, m.io.apu), orBus(m.io.apu))
        ELSE latch(Log(m, "mmapRead", addr, 0), orBus(mmap_cpuRead(m, addr)))

\* A word read that takes the high byte from the address after the low
\* byte's, whatever high-byte address the caller names
readWordNextByte(m, loAddr, hiAddr) ==
    LET high(lo) ==
            LET word(hi) == [m |-> hi.m, v |-> lo.v + 256 * hi.v]
            IN  word(cpuRead(lo.m, loAddr + 1))
    IN  high(cpuRead(m, loAddr))

\* The little-endian word of two reads, the low byte read first: [m, v]
readWord(m, loAddr, hiAddr) ==
    LET high(lo) ==
            LET word(hi) == [m |-> hi.m, v |-> lo.v + 256 * hi.v]
            IN  word(cpuRead(lo.m, hiAddr))
    IN  high(cpuRead(m, loAddr))

\* CPU.cpuRead16bit(addr) (Mapper004 defines no onNmiVectorRead)
cpuRead16bit(m, addr) == readWord(m, addr, addr + 1)

\* PPU.doDMA(value), as the specification states it: the CPU is halted for
\* 513 cycles, 514 when the CPU cycle is odd.
ppu_doDMA(m, val) ==
    haltCycles(Log(m, "doDMA", val, 0), 513 + (m.cpu.cycleCount % 2))

\* A bus write that leaves the data bus latch as it was
cpuWriteNoLatch(m, addr, val) ==
    LET b == Log(m, "write", addr, val)
    IN  IF addr < 8192
        THEN [b EXCEPT !.ram = Store(@, addr % 2048, val)]
        ELSE IF addr < 16384
        THEN Log(Log(b, "catchUp", 0, 0), "ppuWrite", addr % 8, val)
        ELSE IF addr < 16416
        THEN IF addr = 16404
             THEN ppu_doDMA(Log(b, "catchUp", 0, 0), val)
             ELSE IF addr = 16406
             THEN [b EXCEPT !.pads = [i \in DOMAIN @ |-> Controller_strobe(@[i], val)]]
             ELSE Log(b, "apuWrite", addr, val)
        ELSE mmap_cpuWrite(Log(b, "catchUp", 0, 0), addr, val)

\* CPU.cpuWrite(addr, val)
cpuWrite(m, addr, val) ==
    LET b == Log([m EXCEPT !.cpu.dataBus = val], "write", addr, val)
    IN  IF addr < 8192
        THEN [b EXCEPT !.ram = Store(@, addr % 2048, val)]
        ELSE IF addr < 16384
        THEN Log(Log(b, "catchUp", 0, 0), "ppuWrite", addr % 8, val)
        ELSE IF addr < 16416
        THEN IF addr = 16404
             THEN ppu_doDMA(Log(b, "catchUp", 0, 0), val)
             ELSE IF addr = 16406
             THEN [b EXCEPT !.pads = [i \in DOMAIN @ |-> Controller_strobe(@[i], val)]]
             ELSE Log(b, "apuWrite", addr, val)
        ELSE mmap_cpuWrite(Log(b, "catchUp", 0, 0), addr, val)

\* A push whose stack pointer does not wrap from $00 to $FF
pushNoWrap(m, value) ==
    LET w == cpuWrite(m, 256 + m.cpu.REG_SP, value)
    IN  [w EXCEPT !.cpu.REG_SP = IF @ = 0 THEN 0 ELSE @ - 1]

\* CPU.push(value)
push(m, value) ==
    LET w == cpuWrite(m, 256 + m.cpu.REG_SP, value)
    IN  [w EXCEPT !.cpu.REG_SP = (@ - 1) % 256]

\* A pull whose stack pointer does not wrap from $FF to $00
pullNoWrap(m) ==
    LET s == [m EXCEPT !.cpu.REG_SP = IF @ = 255 THEN 255 ELSE @ + 1]
    IN  cpuRead(s, 256 + s.cpu.REG_SP)

\* CPU.pull(): [m, v]
pull(m) ==
    LET s == [m EXCEPT !.cpu.REG_SP = (@ + 1) % 256]
    IN  cpuRead(s, 256 + s.cpu.REG_SP)

\* CPU.getStatus()
getStatus(c) ==
    LET zeroFlag == IF c.F_ZERO = 0 THEN 1 ELSE 0
    IN  c.F_CARRY + 2 * zeroFlag + 4 * c.F_INTERRUPT + 8 * c.F_DECIMAL +
        16 * c.F_BRK + 32 * c.F_NOTUSED + 64 * c.F_OVERFLOW + 128 * c.F_SIGN

\* A setStatus that leaves the decimal flag as it is
setStatusKeepDecimal(m, st) ==
    [m EXCEPT !.cpu.F_CARRY = st % 2,
              !.cpu.F_ZERO = IF Bit(st, 1) = 1 THEN 0 ELSE 1,
              !.cpu.F_INTERRUPT = Bit(st, 2),
              !.cpu.F_BRK = Bit(st, 4),
              !.cpu.F_NOTUSED = 1,
              !.cpu.F_OVERFLOW = Bit(st, 6),
              !.cpu.F_SIGN = Bit(st, 7)]

\* CPU.setStatus(st)
setStatus(m, st) ==
    [m EXCEPT !.cpu.F_CARRY = st % 2,
              !.cpu.F_ZERO = IF Bit(st, 1) = 1 THEN 0 ELSE 1,
              !.cpu.F_INTERRUPT = Bit(st, 2),
              !.cpu.F_DECIMAL = Bit(st, 3),
              !.cpu.F_BRK = Bit(st, 4),
              !.cpu.F_NOTUSED = 1,
              !.cpu.F_OVERFLOW = Bit(st, 6),
              !.cpu.F_SIGN = Bit(st, 7)]

\* A stepControllers that clocks both controllers after every instruction
stepControllersAll(m) ==
    [m EXCEPT !.pads[1] = Controller_clock(@), !.pads[2] = Controller_clock(@),
              !.cpu.controller1Read = FALSE, !.cpu.controller2Read = FALSE]

\* CPU.stepControllers()
stepControllers(m) ==
    LET a == IF m.cpu.controller1Read
             THEN [m EXCEPT !.pads[1] = Controller_clock(@),
                            !.cpu.controller1Read = FALSE]
             ELSE m
    IN  IF a.cpu.controller2Read
        THEN [a EXCEPT !.pads[2] = Controller_clock(@),
                       !.cpu.controller2Read = FALSE]
        ELSE a

-----------------------------------------------------------------------------
(* Interrupt sequences (compatibility.js)                                  *)

\* The pushes of an interrupt sequence: PC high, PC low, status
pushReturn(m, pcToPush, status) ==
    push(push(push(m, (pcToPush \div 256) % 256), pcToPush % 256), status)

\* CPU.doNonMaskableInterrupt(status)
doNonMaskableInterrupt(m, status) ==
    LET pushed(vec) ==
            [pushReturn(vec.m, (vec.m.cpu.REG_PC_NEW + 1) % 65536, status)
                EXCEPT !.cpu.REG_PC_NEW = vec.v - 1, !.cpu.F_INTERRUPT_NEW = 1]
    IN  pushed(cpuRead16bit(m, 65530))

\* A reset sequence that loads the vector itself, not the vector minus one
doResetInterruptNoBias(m) ==
    LET vectored(vec) == [vec.m EXCEPT !.cpu.REG_PC_NEW = vec.v]
    IN  vectored(readWord(m, 65532, 65533))

\* CPU.doResetInterrupt()
doResetInterrupt(m) ==
    LET vectored(vec) == [vec.m EXCEPT !.cpu.REG_PC_NEW = vec.v - 1]
    IN  vectored(readWord(m, 65532, 65533))

\* CPU.doIrq(status)
doIrq(m, status) ==
    LET vectored(vec) == [vec.m EXCEPT !.cpu.REG_PC_NEW = vec.v - 1]
        masked(p) == [p EXCEPT !.cpu.F_INTERRUPT_NEW = 1, !.cpu.F_BRK_NEW = 0]
    IN  vectored(cpuRead16bit(
            masked(pushReturn(m, (m.cpu.REG_PC_NEW + 1) % 65536, status)), 65534))

\* CPU.emulate(), the requested interrupt's sequence.  The ghost event
\* "dispatch" records which sequence runs.
runInterrupt(s, irqType, temp) ==
    CASE irqType = 0 ->
            IF s.cpu.F_INTERRUPT # 0 THEN s
            ELSE doIrq(Log(s, "dispatch", IRQ_NORMAL, 0), temp)
      [] irqType = 1 -> doNonMaskableInterrupt(Log(s, "dispatch", IRQ_NMI, 0), temp)
      [] irqType = 2 -> doResetInterrupt(Log(s, "dispatch", IRQ_RESET, 0))
      [] OTHER -> s

\* CPU.emulate(), after the sequence: the new PC and flags are taken over and
\* the request of an NMI or RESET is cleared
finishInterrupt(d, irqType) ==
    [d EXCEPT !.cpu.REG_PC = d.cpu.REG_PC_NEW,
              !.cpu.F_INTERRUPT = d.cpu.F_INTERRUPT_NEW,
              !.cpu.F_BRK = d.cpu.F_BRK_NEW,
              !.cpu.irqRequested = IF irqType # 0 THEN FALSE ELSE @]

\* The status byte an interrupt sequence pushes: the flags with B clear
interruptStatus(c) ==
    c.F_CARRY + 2 * (IF c.F_ZERO = 0 THEN 1 ELSE 0) + 4 * c.F_INTERRUPT +
    8 * c.F_DECIMAL + 16 * 0 + 32 * c.F_NOTUSED + 64 * c.F_OVERFLOW +
    128 * c.F_SIGN

\* CPU.emulate(), its first part: the dispatch of a requested interrupt
dispatchInterrupt(m) ==
    IF ~m.cpu.irqRequested THEN m
    ELSE finishInterrupt(
             runInterrupt([m EXCEPT !.cpu.REG_PC_NEW = m.cpu.REG_PC,
                                    !.cpu.F_INTERRUPT_NEW = m.cpu.F_INTERRUPT],
                          m.cpu.irqType, interruptStatus(m.cpu)),
             m.cpu.irqType)

-----------------------------------------------------------------------------
(* Instruction decoding (compatibility.js, buildOpData)                    *)

\* OPDATA[opcode + 1] = inst | addrMode << 8 | size << 16 | cycles << 24
OPDATA == <<
    117506570, 100796962, 33620513, 134351423, 50462789, 50462754, 84017154, 84017215, 50397732, 33686818, 33620994, 33686840, 67307589, 67306274, 100860674, 100860735,
    33685769, 84020002, 33620513, 134351679, 67241541, 67241506, 100795906, 100795967, 33620493, 67307810, 33620513, 117639487, 67307589, 67307554, 117639170, 117639231,
    100860700, 100796929, 33620513, 134351421, 50462726, 50462721, 84017191, 84017213, 67174950, 33686785, 33621031, 33686840, 67306246, 67306241, 100860711, 100860733,
    33685767, 84019969, 33620513, 134351677, 67241541, 67241473, 100795943, 100795965, 33620524, 67307777, 33620513, 117639485, 67307589, 67307521, 117639207, 117639229,
    100729385, 100796951, 33620513, 134351424, 50462789, 50462743, 84017184, 84017216, 50397731, 33686807, 33621024, 33686840, 50529051, 67306263, 100860704, 100860736,
    33685771, 84019991, 33620513, 134351680, 67241541, 67241495, 100795936, 100795968, 33620495, 67307799, 33620513, 117639488, 67307589, 67307543, 117639200, 117639232,
    100729386, 100796928, 33620513, 134351422, 50462789, 50462720, 84017192, 84017214, 67174949, 33686784, 33621032, 33686840, 84085787, 67306240, 100860712, 100860734,
    33685772, 84019968, 33620513, 134351678, 67241541, 67241472, 100795944, 100795966, 33620526, 67307776, 33620513, 117639486, 67307589, 67307520, 117639208, 117639230,
    33686852, 100796975, 33686852, 100796986, 50462769, 50462767, 50462768, 50462778, 33620502, 33686852, 33620533, 33620513, 67306289, 67306287, 67306288, 67306298,
    33685763, 100797231, 33620513, 33620513, 67241521, 67241519, 67241776, 67241786, 33620535, 84085039, 33620534, 33620513, 33620513, 84084783, 33620513, 33620513,
    33686815, 100796957, 33686814, 100796985, 50462751, 50462749, 50462750, 50462777, 33620531, 33686813, 33620530, 33620513, 67306271, 67306269, 67306270, 67306297,
    33685764, 84019997, 33620513, 84020025, 67241503, 67241501, 67241758, 67241785, 33620496, 67307805, 33620532, 33620513, 67307551, 67307549, 67307806, 67307833,
    33686803, 100796945, 33686852, 134351419, 50462739, 50462737, 84017172, 84017211, 33620506, 33686801, 33620501, 33686840, 67306259, 67306257, 100860692, 100860731,
    33685768, 84019985, 33620513, 134351675, 67241541, 67241489, 100795924, 100795963, 33620494, 67307793, 33620513, 117639483, 67307589, 67307537, 117639188, 117639227,
    33686802, 100796971, 33686852, 134351420, 50462738, 50462763, 84017176, 84017212, 33620505, 33686827, 33620513, 33620513, 67306258, 67306283, 100860696, 100860732,
    33685765, 84020011, 33620513, 134351676, 67241541, 67241515, 100795928, 100795964, 33620525, 67307819, 33620513, 117639484, 67307589, 67307563, 117639192, 117639228
>>


RECURSIVE BitXor(_, _)
BitXor(a, b) ==
    IF a = 0 THEN b
    ELSE IF b = 0 THEN a
    ELSE (IF a % 2 # b % 2 THEN 1 ELSE 0) + 2 * BitXor(a \div 2, b \div 2)

\* x & 0xff00, as the page number
Page(x) == (x \div 256) % 256

\* CPU.emulate(), the addressing-mode switch:
\* [m, addr, pageCrossCycles]
addressing(m, addrMode, opaddr) ==
    LET c == m.cpu
        resolved(mm, addr, pc) ==
            [m |-> mm, addr |-> addr % 65536, pageCrossCycles |-> pc]
        \* ABSX, ABSY, (d),y: a page crossing costs a dummy read
        indexed(mm, base, idx) ==
            IF Page(base) # Page(base + idx)
            THEN resolved(cpuRead(mm, 256 * Page(base) + ((base + idx) % 256)).m,
                          base + idx, 1)
            ELSE resolved(mm, base + idx, 0)
        pointed(p) == resolved(p.m, p.v, 0)
        pointedY(p) == indexed(p.m, p.v, c.REG_Y)
        zeroPageWord(mm, ptr) == readWord(mm, ptr, (ptr + 1) % 256)
        \* the modes that read one operand byte
        byteOperand(one) ==
            CASE addrMode = 0 -> resolved(one.m, one.v, 0)
              [] addrMode = 1 ->
                   resolved(one.m,
                            ((c.REG_PC + 1) % 65536) +
                                (IF one.v < 128 THEN one.v ELSE one.v - 256),
                            0)
              [] addrMode = 6 -> resolved(one.m, (one.v + c.REG_X) % 256, 0)
              [] addrMode = 7 -> resolved(one.m, (one.v + c.REG_Y) % 256, 0)
              [] addrMode = 10 ->
                   pointed(zeroPageWord(one.m, (one.v + c.REG_X) % 256))
              [] addrMode = 11 -> pointedY(zeroPageWord(one.m, one.v))
        \* the modes that read two operand bytes
        wordOperand(two) ==
            CASE addrMode = 3 -> resolved(two.m, two.v, 0)
              [] addrMode = 8 -> indexed(two.m, two.v, c.REG_X)
              [] addrMode = 9 -> indexed(two.m, two.v, c.REG_Y)
              [] addrMode = 12 ->
                   pointed(readWord(two.m, two.v,
                                    256 * Page(two.v) + ((two.v + 1) % 256)))
    IN  CASE addrMode \in {0, 1, 6, 7, 10, 11} -> byteOperand(cpuRead(m, opaddr + 1))
          [] addrMode \in {3, 8, 9, 12} -> wordOperand(cpuRead16bit(m, opaddr + 1))
          [] addrMode = 4 -> resolved(m, c.REG_ACC, 0)
          [] addrMode = 5 -> resolved(m, c.REG_PC, 0)
          [] OTHER -> resolved(m, 0, 0)

\* ADC, AND, CMP, EOR, LDA, LDX, LDY, ORA, SBC, LAX by instruction number
readInstructionsWithPenalty == {0, 1, 17, 23, 29, 30, 31, 34, 43, 60}


\* F_SIGN and F_ZERO from a result (F_ZERO holds the result, not the flag)
SetNZ(m, n, z) == [m EXCEPT !.cpu.F_SIGN = n, !.cpu.F_ZERO = z]

\* A taken branch that costs one cycle wherever its target lies
branchFlat(m, taken, addr) ==
    IF taken
    THEN [m |-> [m EXCEPT !.cpu.REG_PC = addr - 1], branchCycles |-> 1]
    ELSE [m |-> m, branchCycles |-> 0]

\* The taken-branch arm shared by the eight branch cases
branch(m, taken, addr) ==
    IF taken
    THEN [m |-> [m EXCEPT !.cpu.REG_PC = addr - 1],
          branchCycles |-> IF Page(m.cpu.REG_PC + 1) # Page(addr) THEN 2 ELSE 1]
    ELSE [m |-> m, branchCycles |-> 0]

\* The sum part shared by ADC (0) and RRA (65)
addWithCarry(m, val) ==
    LET c == m.cpu
        temp == c.REG_ACC + val + c.F_CARRY
    IN  [m EXCEPT !.cpu.F_OVERFLOW = IF Bit(c.REG_ACC, 7) = Bit(val, 7) /\
                                        Bit(c.REG_ACC, 7) # Bit(temp, 7) THEN 1 ELSE 0,
                  !.cpu.F_CARRY = IF temp > 255 THEN 1 ELSE 0,
                  !.cpu.F_SIGN = Bit(temp, 7),
                  !.cpu.F_ZERO = temp % 256,
                  !.cpu.REG_ACC = temp % 256]

\* The difference part shared by SBC (43) and ISC (63)
subWithBorrow(m, val) ==
    LET c == m.cpu
        temp == c.REG_ACC - val - (1 - c.F_CARRY)
    IN  [m EXCEPT !.cpu.F_SIGN = (temp \div 128) % 2,
                  !.cpu.F_ZERO = temp % 256,
                  !.cpu.F_OVERFLOW = IF Bit(c.REG_ACC, 7) # (temp \div 128) % 2 /\
                                        Bit(c.REG_ACC, 7) # Bit(val, 7) THEN 1 ELSE 0,
                  !.cpu.F_CARRY = IF temp < 0 THEN 0 ELSE 1,
                  !.cpu.REG_ACC = temp % 256]

\* The comparison shared by CMP (17), CPX (18), CPY (19) and DCP (62)
compare(m, reg, val) ==
    LET temp == reg - val
    IN  [m EXCEPT !.cpu.F_CARRY = IF temp >= 0 THEN 1 ELSE 0,
                  !.cpu.F_SIGN = (temp \div 128) % 2,
                  !.cpu.F_ZERO = temp % 256]

\* CPU.emulate(), the instruction switch: [m, branchCycles]
execute(m, instructionType, addrMode, addr) ==
    LET c == m.cpu
        rd == cpuRead(m, addr)
        \* a read-modify-write: read, write back, then (after the flags) write f
        wb == cpuWrite(rd.m, addr, rd.v)
        done(x) == [m |-> x, branchCycles |-> 0]
        t == instructionType
    IN
    CASE t = 0 -> done(addWithCarry(rd.m, rd.v))
      [] t = 1 -> LET a == BitAnd(c.REG_ACC, rd.v)
                  IN  done(SetNZ([rd.m EXCEPT !.cpu.REG_ACC = a], Bit(a, 7), a))
      [] t = 2 ->
           IF addrMode = 4
           THEN LET a == (c.REG_ACC * 2) % 256
                IN  done(SetNZ([m EXCEPT !.cpu.F_CARRY = Bit(c.REG_ACC, 7),
                                         !.cpu.REG_ACC = a], Bit(a, 7), a))
           ELSE LET temp == (rd.v * 2) % 256
                IN  done(cpuWrite(SetNZ([wb EXCEPT !.cpu.F_CARRY = Bit(rd.v, 7)],
                                        Bit(temp, 7), temp), addr, temp))
      [] t = 3 -> branch(m, c.F_CARRY = 0, addr)
      [] t = 4 -> branch(m, c.F_CARRY = 1, addr)
      [] t = 5 -> branch(m, c.F_ZERO = 0, addr)
      [] t = 6 -> done([rd.m EXCEPT !.cpu.F_SIGN = Bit(rd.v, 7),
                                    !.cpu.F_OVERFLOW = Bit(rd.v, 6),
                                    !.cpu.F_ZERO = BitAnd(rd.v, c.REG_ACC)])
      [] t = 7 -> branch(m, c.F_SIGN = 1, addr)
      [] t = 8 -> branch(m, c.F_ZERO # 0, addr)
      [] t = 9 -> branch(m, c.F_SIGN = 0, addr)
      [] t = 10 ->
           LET pc == c.REG_PC + 2
               p1 == push([m EXCEPT !.cpu.REG_PC = pc], (pc \div 256) % 256)
               p2 == push(p1, pc % 256)
               b == [p2 EXCEPT !.cpu.F_BRK = 1]
               p3 == push(b, getStatus(b.cpu))
               vec == cpuRead16bit([p3 EXCEPT !.cpu.F_INTERRUPT = 1], 65534)
           IN  done([vec.m EXCEPT !.cpu.REG_PC = vec.v - 1])
      [] t = 11 -> branch(m, c.F_OVERFLOW = 0, addr)
      [] t = 12 -> branch(m, c.F_OVERFLOW = 1, addr)
      [] t = 13 -> done([m EXCEPT !.cpu.F_CARRY = 0])
      [] t = 14 -> done([m EXCEPT !.cpu.F_DECIMAL = 0])
      [] t = 15 -> done([m EXCEPT !.cpu.F_INTERRUPT = 0])
      [] t = 16 -> done([m EXCEPT !.cpu.F_OVERFLOW = 0])
      [] t = 17 -> done(compare(rd.m, c.REG_ACC, rd.v))
      [] t = 18 -> done(compare(rd.m, c.REG_X, rd.v))
      [] t = 19 -> done(compare(rd.m, c.REG_Y, rd.v))
      [] t = 20 -> LET temp == (rd.v - 1) % 256
                   IN  done(cpuWrite(SetNZ(wb, Bit(temp, 7), temp), addr, temp))
      [] t = 21 -> LET x == (c.REG_X - 1) % 256
                   IN  done(SetNZ([m EXCEPT !.cpu.REG_X = x], Bit(x, 7), x))
      [] t = 22 -> LET y == (c.REG_Y - 1) % 256
                   IN  done(SetNZ([m EXCEPT !.cpu.REG_Y = y], Bit(y, 7), y))
      [] t = 23 -> LET a == BitXor(rd.v, c.REG_ACC) % 256
                   IN  done(SetNZ([rd.m EXCEPT !.cpu.REG_ACC = a], Bit(a, 7), a))
      [] t = 24 -> LET temp == (rd.v + 1) % 256
                   IN  done(cpuWrite(SetNZ(wb, Bit(temp, 7), temp), addr, temp))
      [] t = 25 -> LET x == (c.REG_X + 1) % 256
                   IN  done(SetNZ([m EXCEPT !.cpu.REG_X = x], Bit(x, 7), x))
      [] t = 26 -> LET y == (c.REG_Y + 1) % 256
                   IN  done(SetNZ([m EXCEPT !.cpu.REG_Y = y], Bit(y, 7), y))
      [] t = 27 -> done([m EXCEPT !.cpu.REG_PC = addr - 1])
      [] t = 28 ->
           LET pcToPush == c.REG_PC
               p1 == push(m, (pcToPush \div 256) % 256)
               p2 == push(p1, pcToPush % 256)
           IN  done([p2 EXCEPT !.cpu.REG_PC = addr - 1])
      [] t = 29 -> done(SetNZ([rd.m EXCEPT !.cpu.REG_ACC = rd.v], Bit(rd.v, 7), rd.v))
      [] t = 30 -> done(SetNZ([rd.m EXCEPT !.cpu.REG_X = rd.v], Bit(rd.v, 7), rd.v))
      [] t = 31 -> done(SetNZ([rd.m EXCEPT !.cpu.REG_Y = rd.v], Bit(rd.v, 7), rd.v))
      [] t = 32 ->
           IF addrMode = 4
           THEN LET a == c.REG_ACC \div 2
                IN  done(SetNZ([m EXCEPT !.cpu.F_CARRY = c.REG_ACC % 2,
                                         !.cpu.REG_ACC = a], 0, a))
           ELSE LET temp == rd.v \div 2
                IN  done(SetNZ(cpuWrite([wb EXCEPT !.cpu.F_CARRY = rd.v % 2],
                                        addr, temp), 0, temp))
      [] t = 33 -> done(m)
      [] t = 34 -> LET a == BitOr(rd.v, c.REG_ACC) % 256
                   IN  done(SetNZ([rd.m EXCEPT !.cpu.REG_ACC = a], Bit(a, 7), a))
      [] t = 35 -> done(push(m, c.REG_ACC))
      [] t = 36 -> done(push(m, BitOr(getStatus(c), 16)))
      [] t = 37 -> LET p == pull(m)
                   IN  done(SetNZ([p.m EXCEPT !.cpu.REG_ACC = p.v], Bit(p.v, 7), p.v))
      [] t = 38 -> LET p == pull(m) IN done(setStatus(p.m, p.v))
      [] t = 39 ->
           IF addrMode = 4
           THEN LET temp == ((c.REG_ACC * 2) % 256) + c.F_CARRY
                IN  done(SetNZ([m EXCEPT !.cpu.F_CARRY = Bit(c.REG_ACC, 7),
                                         !.cpu.REG_ACC = temp], Bit(temp, 7), temp))
           ELSE LET temp == ((rd.v * 2) % 256) + c.F_CARRY
                IN  done(SetNZ(cpuWrite([wb EXCEPT !.cpu.F_CARRY = Bit(rd.v, 7)],
                                        addr, temp), Bit(temp, 7), temp))
      [] t = 40 ->
           IF addrMode = 4
           THEN LET temp == (c.REG_ACC \div 2) + (128 * c.F_CARRY)
                IN  done(SetNZ([m EXCEPT !.cpu.F_CARRY = c.REG_ACC % 2,
                                         !.cpu.REG_ACC = temp], Bit(temp, 7), temp))
           ELSE LET temp == (rd.v \div 2) + (128 * c.F_CARRY)
                IN  done(SetNZ(cpuWrite([wb EXCEPT !.cpu.F_CARRY = rd.v % 2],
                                        addr, temp), Bit(temp, 7), temp))
      [] t = 41 ->
           LET st == pull(m)
               lo == pull(setStatus(st.m, st.v))
               hi == pull(lo.m)
           IN  done([hi.m EXCEPT !.cpu.REG_PC = (lo.v + 256 * hi.v) - 1])
      [] t = 42 ->
           LET lo == pull(m)
               hi == pull(lo.m)
           IN  done([hi.m EXCEPT !.cpu.REG_PC = lo.v + 256 * hi.v])
      [] t = 43 -> done(subWithBorrow(rd.m, rd.v))
      [] t = 44 -> done([m EXCEPT !.cpu.F_CARRY = 1])
      [] t = 45 -> done([m EXCEPT !.cpu.F_DECIMAL = 1])
      [] t = 46 -> done([m EXCEPT !.cpu.F_INTERRUPT = 1])
      [] t = 47 -> done(cpuWrite(m, addr, c.REG_ACC))
      [] t = 48 -> done(cpuWrite(m, addr, c.REG_X))
      [] t = 49 -> done(cpuWrite(m, addr, c.REG_Y))
      [] t = 50 -> done(SetNZ([m EXCEPT !.cpu.REG_X = c.REG_ACC],
                              Bit(c.REG_ACC, 7), c.REG_ACC))
      [] t = 51 -> done(SetNZ([m EXCEPT !.cpu.REG_Y = c.REG_ACC],
                              Bit(c.REG_ACC, 7), c.REG_ACC))
      [] t = 52 -> done(SetNZ([m EXCEPT !.cpu.REG_X = c.REG_SP % 256],
                              Bit(c.REG_SP, 7), c.REG_SP % 256))
      [] t = 53 -> done(SetNZ([m EXCEPT !.cpu.REG_ACC = c.REG_X],
                              Bit(c.REG_X, 7), c.REG_X))
      [] t = 54 -> done([m EXCEPT !.cpu.REG_SP = c.REG_X % 256])
      [] t = 55 -> done(SetNZ([m EXCEPT !.cpu.REG_ACC = c.REG_Y],
                              Bit(c.REG_Y, 7), c.REG_Y))
      [] t = 56 -> LET temp == BitAnd(c.REG_ACC, rd.v)
                   IN  done(SetNZ([rd.m EXCEPT !.cpu.F_CARRY = temp % 2,
                                               !.cpu.REG_ACC = temp \div 2],
                                  0, temp \div 2))
      [] t = 57 -> LET a == BitAnd(c.REG_ACC, rd.v)
                   IN  done(SetNZ([rd.m EXCEPT !.cpu.REG_ACC = a,
                                               !.cpu.F_CARRY = Bit(a, 7)],
                                  Bit(a, 7), a))
      [] t = 58 -> LET temp == BitAnd(c.REG_ACC, rd.v)
                       a == (temp \div 2) + (128 * c.F_CARRY)
                   IN  done(SetNZ([rd.m EXCEPT !.cpu.REG_ACC = a,
                                               !.cpu.F_CARRY = Bit(temp, 7),
                                               !.cpu.F_OVERFLOW =
                                                   (Bit(temp, 7) + Bit(temp, 6)) % 2],
                                  c.F_CARRY, a))
      [] t = 59 -> LET temp == BitAnd(c.REG_X, c.REG_ACC) - rd.v
                   IN  done([rd.m EXCEPT
                             !.cpu.F_SIGN = (temp \div 128) % 2,
                             !.cpu.F_ZERO = temp % 256,
                             !.cpu.F_OVERFLOW =
                                 IF Bit(c.REG_X, 7) # (temp \div 128) % 2 /\
                                    Bit(c.REG_X, 7) # Bit(rd.v, 7) THEN 1 ELSE 0,
                             !.cpu.F_CARRY = IF temp < 0 THEN 0 ELSE 1,
                             !.cpu.REG_X = temp % 256])
      [] t = 60 -> done(SetNZ([rd.m EXCEPT !.cpu.REG_ACC = rd.v, !.cpu.REG_X = rd.v],
                              Bit(rd.v, 7), rd.v))
      [] t = 61 -> done(cpuWrite(m, addr, BitAnd(c.REG_ACC, c.REG_X)))
      [] t = 62 -> LET temp == (rd.v - 1) % 256
                   IN  done(compare(cpuWrite(wb, addr, temp), c.REG_ACC, temp))
      [] t = 63 -> LET temp == (rd.v + 1) % 256
                   IN  done(subWithBorrow(cpuWrite(wb, addr, temp), temp))
      [] t = 64 -> LET temp == ((rd.v * 2) % 256) + c.F_CARRY
                       w == cpuWrite([wb EXCEPT !.cpu.F_CARRY = Bit(rd.v, 7)], addr, temp)
                       a == BitAnd(c.REG_ACC, temp)
                   IN  done(SetNZ([w EXCEPT !.cpu.REG_ACC = a], Bit(a, 7), a))
      [] t = 65 -> LET temp == (rd.v \div 2) + (128 * c.F_CARRY)
                       w == cpuWrite([wb EXCEPT !.cpu.F_CARRY = rd.v % 2], addr, temp)
                   IN  done(addWithCarry(w, temp))
      [] t = 66 -> LET temp == (rd.v * 2) % 256
                       w == cpuWrite([wb EXCEPT !.cpu.F_CARRY = Bit(rd.v, 7)], addr, temp)
                       a == BitOr(c.REG_ACC, temp)
                   IN  done(SetNZ([w EXCEPT !.cpu.REG_ACC = a], Bit(a, 7), a))
      [] t = 67 -> LET temp == rd.v \div 2
                       w == cpuWrite([wb EXCEPT !.cpu.F_CARRY = rd.v % 2], addr, temp)
                       a == BitXor(c.REG_ACC, temp)
                   IN  done(SetNZ([w EXCEPT !.cpu.REG_ACC = a], Bit(a, 7), a))
      [] t = 69 -> done(rd.m)
      [] OTHER -> done(m)

\* An end of emulate() that counts the seven cycles of an interrupt sequence
\* the call ran
retireWithSequence(m, cycles) ==
    LET n == IF \E i \in DOMAIN m.log : m.log[i].op = "dispatch"
             THEN cycles + 7 ELSE cycles
    IN  [m |-> stepControllers([m EXCEPT !.cpu.cycleCount = @ + n]),
         cycles |-> n]

\* CPU.emulate(), its end: the cycles are added to cycleCount and the
\* controllers that were read are clocked: [m, cycles]
retire(m, cycles) ==
    [m |-> stepControllers([m EXCEPT !.cpu.cycleCount = @ + cycles]),
     cycles |-> cycles]

\* CPU.emulate(), the cycle count of the executed instruction x: base cycles,
\* page-cross penalty of the reading instructions, branch cycles
countCycles(x, opinf, pageCrossCycles) ==
    retire(x.m, (opinf \div 16777216) +
                (IF opinf % 256 \in readInstructionsWithPenalty
                 THEN pageCrossCycles ELSE 0) +
                x.branchCycles)

\* CPU.emulate(), the execution of the instruction whose operand a is resolved
executeResolved(a, opinf) ==
    countCycles(execute(a.m, opinf % 256, (opinf \div 256) % 256, a.addr),
                opinf, a.pageCrossCycles)

\* A decoding that advances the program counter without wrapping it at 2^16
decodeNoWrap(m, opinf, opaddr) ==
    executeResolved(
        addressing([m EXCEPT !.cpu.REG_PC = @ + ((opinf \div 65536) % 256)],
                   (opinf \div 256) % 256, opaddr),
        opinf)

\* CPU.emulate(), the decoding of the table entry opinf of the fetched opcode:
\* PC is advanced by the size, the operand address resolved
decode(m, opinf, opaddr) ==
    executeResolved(
        addressing([m EXCEPT !.cpu.REG_PC = (@ + ((opinf \div 65536) % 256)) % 65536],
                   (opinf \div 256) % 256, opaddr),
        opinf)

\* CPU.emulate(), the opcode fetch at opaddr.  The ghost event "boundary"
\* records the I flag and the address of the instruction that is fetched.
fetched(f, opaddr) == decode(f.m, OPDATA[f.v + 1], opaddr)

\* CPU.emulate(), the instruction at opaddr
fetch(i, opaddr) ==
    fetched(cpuRead(Log(i, "boundary", opaddr, i.cpu.F_INTERRUPT), opaddr), opaddr)

\* CPU.emulate() after the interrupt dispatch, REG_PC being the address before
\* the instruction's
fetchNext(i) == fetch(i, (i.cpu.REG_PC + 1) % 65536)

\* CPU.emulate(): [m, cycles]
emulate(m) == fetchNext(dispatchInterrupt(m))

\* CPU.step(): [m, cycles]
step(m) ==
    IF m.cpu.cyclesToHalt > 0
    THEN [m |-> [m EXCEPT !.cpu.cyclesToHalt = @ - 1, !.cpu.cycleCount = @ + 1],
          cycles |-> 1]
    ELSE emulate(m)

\* CPU.reset(): the CPU object's fields after power-on
CPU_reset ==
    [REG_ACC |-> 0, REG_X |-> 0, REG_Y |-> 0, REG_SP |-> 253,
     REG_PC |-> 32768 - 1, REG_PC_NEW |-> 32768 - 1,
     F_CARRY |-> 0, F_ZERO |-> 1, F_INTERRUPT |-> 1, F_DECIMAL |-> 0, F_BRK |-> 0,
     F_NOTUSED |-> 1, F_OVERFLOW |-> 0, F_SIGN |-> 0,
     F_BRK_NEW |-> 0, F_INTERRUPT_NEW |-> 1,
     cyclesToHalt |-> 0, cycleCount |-> 0,
     irqRequested |-> TRUE, irqType |-> IRQ_RESET,
     dataBus |-> 0, controller1Read |-> FALSE, controller2Read |-> FALSE]

-----------------------------------------------------------------------------
(* The machine as a state machine                                          *)

\* The machine a top-level call starts from
Mach == [cpu |-> cpu, ram |-> ram, mmc |-> mmc, pads |-> pads, io |-> NoIo, log |-> <<>>]

\* The machine a top-level call leaves
Commit(m) ==
    /\ cpu' = m.cpu
    /\ ram' = m.ram
    /\ mmc' = m.mmc
    /\ pads' = m.pads
    /\ prg' = prg

\* A PRG-ROM image: the bytes bs stored from CPU address addr on, for code in
\* $C000-$FFFF, which the power-on bank map places at addr - $8000.
At(addr, bs) == [o \in {addr - 32768 + i - 1 : i \in 1 .. Len(bs)} |-> bs[o - (addr - 32768) + 1]]

\* NMI -> $D000, RESET -> $C000, IRQ/BRK -> $E000
Vectors == At(65530, <<0, 208, 0, 192, 0, 224>>)

\* main: CLI; NOP; SEI; NOP; JMP $C000    NMI: RTI    IRQ: RTI
ProgMaskToggle ==
    At(49152, <<88, 234, 120, 234, 76, 0, 192>>) @@ At(53248, <<64>>) @@
    At(57344, <<64>>) @@ Vectors

\* main: CLI; BRK; (pad); NOP; JMP $C000    NMI: CLI; NOP; RTI    IRQ: NOP; RTI
ProgNested ==
    At(49152, <<88, 0, 234, 234, 76, 0, 192>>) @@ At(53248, <<88, 234, 64>>) @@
    At(57344, <<234, 64>>) @@ Vectors

\* Bounds of the interrupt specification
MaxCycles == 12
MaxHalt == 2

InitMachine ==
    /\ cpu = CPU_reset
    /\ ram = <<>>
    /\ mmc = Mapper004_loadROM
    /\ pads = [i \in 1 .. 2 |-> NewController]

\* The ghost history: the interrupt types requested since the last instruction
\* boundary, the IRQ line as the devices drive it, an NMI owed to a request;
\* the A12 edges since the last mapper register write, the latch value the
\* scanline counter was armed with by those writes (0: not armed), and whether
\* the last write to $E000-$FFFF went to an even address; of the controller
\* port: whether the strobe fell and stayed low, the byte held then, the
\* instructions that read $4016 since, and the strobe bit last written; the
\* bus calls or steps made; the instruction under test: the step that
\* executes it, its opcode and operand bytes, and the value of X and Y; the
\* interrupt frames dispatched and not yet returned from; the snapshot taken.
NoHist == [reqs |-> {}, irqLine |-> FALSE, nmiOwed |-> FALSE,
           edges |-> 0, armed |-> 0, irqOff |-> FALSE,
           poll |-> [valid |-> FALSE, byte |-> 0, n |-> 0, line |-> 0],
           calls |-> 0,
           test |-> [step |-> 0, op |-> 0, b1 |-> 0, b2 |-> 0, idx |-> 0],
           frames |-> <<>>, snap |-> <<>>]

Init ==
    /\ InitMachine
    /\ prg \in {ProgMaskToggle, ProgNested}
    /\ obs = [act |-> "init"]
    /\ hist = NoHist

\* The step r observed: what it logged and what held when it began
StepObserved(r, stall) ==
    /\ Commit(r.m)
    /\ obs' = [act |-> IF stall THEN "stall" ELSE "step",
               log |-> r.m.log, cycles |-> r.cycles, pre |-> cpu,
               reqs |-> hist.reqs, irqLine |-> hist.irqLine,
               nmiOwed |-> hist.nmiOwed]
    /\ hist' = IF stall THEN hist
               ELSE [hist EXCEPT !.reqs = {}, !.nmiOwed = FALSE]

\* cpu.step(), called by the frame loop
Step ==
    /\ cpu.cycleCount < MaxCycles
    /\ StepObserved(step(Mach), cpu.cyclesToHalt > 0)

\* cpu.requestIrq(type), called by a device (PPU: NMI; APU, mapper: IRQ;
\* cartridge load: RESET)
RequestIrq ==
    \E type \in {IRQ_NORMAL, IRQ_NMI, IRQ_RESET} :
        /\ Commit(requestIrq(Mach, type))
        /\ obs' = [act |-> "requestIrq", type |-> type]
        /\ hist' = [hist EXCEPT
                      !.reqs = @ \cup {type},
                      !.irqLine = (type = IRQ_NORMAL) \/ @,
                      !.nmiOwed = IF type = IRQ_NMI THEN TRUE
                                  ELSE IF type = IRQ_RESET THEN FALSE ELSE @]

\* cpu.clearIrq(IRQ_NORMAL), called by the device that deasserts its IRQ
ClearIrq ==
    /\ Commit(clearIrq(Mach, IRQ_NORMAL))
    /\ obs' = [act |-> "clearIrq"]
    /\ hist' = [hist EXCEPT !.irqLine = FALSE]

\* cpu.haltCycles(n), called by a DMA
HaltCycles ==
    \E n \in 1 .. MaxHalt :
        /\ cpu.cyclesToHalt + n <= MaxHalt
        /\ Commit(haltCycles(Mach, n))
        /\ obs' = [act |-> "haltCycles", n |-> n]
        /\ hist' = hist

Next == Step \/ RequestIrq \/ ClearIrq \/ HaltCycles

Spec == Init /\ [][Next]_vars

-----------------------------------------------------------------------------
(* Reading the ghost log of one call                                       *)

\* The interrupt sequences a call ran
DispatchedTypes(log) == {log[i].a : i \in {j \in DOMAIN log : log[j].op = "dispatch"}}

\* The event of the instruction boundary of an emulate() call
Boundary(log) == log[CHOOSE i \in DOMAIN log : log[i].op = "boundary"]

\* The bus writes of an emulate() call before its opcode fetch
WritesBeforeFetch(log) ==
    LET b == CHOOSE i \in DOMAIN log : log[i].op = "boundary"
    IN  SelectSeq(SubSeq(log, 1, b - 1), LAMBDA e : e.op = "write")

\* The little-endian word the cartridge holds at a CPU address of $C000-$FFFF
RomWord(addr) == PrgData(addr - 32768) + 256 * PrgData(addr + 1 - 32768)

HighestPriority(S) ==
    IF IRQ_RESET \in S THEN IRQ_RESET
    ELSE IF IRQ_NMI \in S THEN IRQ_NMI ELSE IRQ_NORMAL

\* An NMI or RESET request was latched when the call began
NmiOrResetLatched(c) == c.irqRequested /\ c.irqType \in {IRQ_NMI, IRQ_RESET}

-----------------------------------------------------------------------------
(* Claims on interrupt arbitration                                         *)

\* C1: when two or more of RESET, NMI and IRQ were requested through
\* requestIrq, in any order, since the previous instruction boundary, the next
\* boundary dispatches the one of highest priority, RESET over NMI over IRQ.
C1_HighestPriorityDispatched ==
    (obs.act = "step" /\ Cardinality(obs.reqs) >= 2)
        => DispatchedTypes(obs.log) = {HighestPriority(obs.reqs)}

\* C2: an IRQ asserted through requestIrq(IRQ) and not yet deasserted through
\* clearIrq(IRQ) is served at every instruction boundary that finds I = 0 and
\* no NMI or RESET pending (IRQ sequence through $FFFE, I set); a boundary that
\* finds I = 1 pushes nothing, leaves PC alone and keeps the request.
C2_IrqHeldUntilCleared ==
    (obs.act = "step" /\ obs.irqLine /\ ~NmiOrResetLatched(obs.pre))
        => IF obs.pre.F_INTERRUPT = 0
           THEN /\ DispatchedTypes(obs.log) = {IRQ_NORMAL}
                /\ Boundary(obs.log).a = RomWord(65534)
                /\ Boundary(obs.log).v = 1
           ELSE /\ DispatchedTypes(obs.log) = {}
                /\ WritesBeforeFetch(obs.log) = <<>>
                /\ Boundary(obs.log).a = (obs.pre.REG_PC + 1) % 65536
                /\ cpu.irqRequested /\ cpu.irqType = IRQ_NORMAL

\* The three bytes an interrupt sequence pushes for the CPU state c: return
\* address high, low, then the status byte with B clear
ExpectedPushes(c) ==
    LET ret == (c.REG_PC + 1) % 65536
        st == c.F_CARRY + 2 * (IF c.F_ZERO = 0 THEN 1 ELSE 0) + 4 * c.F_INTERRUPT +
              8 * c.F_DECIMAL + 32 * c.F_NOTUSED + 64 * c.F_OVERFLOW + 128 * c.F_SIGN
    IN  << Ev("write", 256 + c.REG_SP, ret \div 256),
           Ev("write", 256 + ((c.REG_SP - 1) % 256), ret % 256),
           Ev("write", 256 + ((c.REG_SP - 2) % 256), st) >>

\* C3: a requestIrq(NMI) not followed by a RESET request is dispatched exactly
\* once, at the first instruction boundary after the stall cycles, whatever I
\* is: return address and status (B clear) pushed, I set, execution continued
\* at the word at $FFFA, request cleared; no NMI is dispatched unrequested.
C3_NmiDispatchedOnce ==
    /\ obs.act = "stall" => (obs.log = <<>> /\ hist.nmiOwed = obs.nmiOwed)
    /\ (obs.act = "step" /\ ~obs.nmiOwed) => IRQ_NMI \notin DispatchedTypes(obs.log)
    /\ (obs.act = "step" /\ obs.nmiOwed) =>
           /\ DispatchedTypes(obs.log) = {IRQ_NMI}
           /\ WritesBeforeFetch(obs.log) = ExpectedPushes(obs.pre)
           /\ Boundary(obs.log).v = 1
           /\ Boundary(obs.log).a = RomWord(65530)
           /\ ~cpu.irqRequested

\* An NMI requested while I = 1 and a DMA stall was pending has been dispatched
C3_Witness ==
    /\ obs.act = "step" /\ obs.nmiOwed
    /\ obs.pre.F_INTERRUPT = 1
    /\ obs.pre.cycleCount > 0
    /\ IRQ_NMI \in DispatchedTypes(obs.log)

-----------------------------------------------------------------------------
(* MMC3 scanline counter as a state machine                                *)

\* main: CLI; NOP; JMP $C001    NMI: RTI    IRQ: RTI
ProgIdle ==
    At(49152, <<88, 234, 76, 1, 192>>) @@ At(53248, <<64>>) @@
    At(57344, <<64>>) @@ Vectors

\* Bounds of the scanline counter specification
MaxLatch == 3
MaxEdges == 9
MaxMmcCycles == 10

\* The mapper registers written: $C000, $C001, $DFFE, $DFFF, $E000, $E001,
\* $FFFE, $FFFF
IrqRegisters == {49152, 49153, 57342, 57343, 57344, 57345, 65534, 65535}

InitMmc3 ==
    /\ InitMachine
    /\ prg = ProgIdle
    /\ obs = [act |-> "init"]
    /\ hist = NoHist

IrqState(mc) ==
    [irqCounter |-> mc.irqCounter, irqLatch |-> mc.irqLatch,
     irqReload |-> mc.irqReload, irqEnabled |-> mc.irqEnabled]

\* The call made requestIrq(IRQ_NORMAL)
RequestedIrq(log) ==
    \E i \in DOMAIN log : log[i].op = "requestIrq" /\ log[i].a = IRQ_NORMAL

\* cpu.cpuWrite(addr, data) as a store instruction makes it, to a mapper
\* register
MapperWrite ==
    \E addr \in IrqRegisters :
    \E data \in (IF addr \in {49152, 57342} THEN 0 .. MaxLatch ELSE {0}) :
        LET m == cpuWrite(Mach, addr, data)
        IN  /\ Commit(m)
            /\ obs' = [act |-> "cpuWrite", addr |-> addr, data |-> data,
                       log |-> m.log,
                       pre |-> [irqRequested |-> cpu.irqRequested,
                                irqType |-> cpu.irqType]]
            /\ hist' = [hist EXCEPT
                          !.edges = 0,
                          !.armed = IF m.mmc.irqReload /\ m.mmc.irqEnabled
                                    THEN m.mmc.irqLatch ELSE 0,
                          !.irqOff = IF addr >= 57344 THEN addr % 2 = 0 ELSE @]

\* mapper.clockScanline(), called by the PPU on a rising edge of A12
A12Rise ==
    /\ hist.edges < MaxEdges
    /\ LET m == clockScanline(Mach)
       IN  /\ Commit(m)
           /\ obs' = [act |-> "clockScanline", requested |-> RequestedIrq(m.log),
                      pre |-> IrqState(mmc)]
           /\ hist' = [hist EXCEPT !.edges = @ + 1]

\* cpu.step() of the running program
MmcStep ==
    /\ cpu.cycleCount < MaxMmcCycles
    /\ Commit(step(Mach).m)
    /\ obs' = [act |-> "step"]
    /\ hist' = hist

\* cpu.requestIrq(IRQ_NMI), called by the PPU at vertical blank
VblankNmi ==
    /\ Commit(requestIrq(Mach, IRQ_NMI))
    /\ obs' = [act |-> "requestIrq", type |-> IRQ_NMI]
    /\ hist' = hist

NextMmc3 == MapperWrite \/ A12Rise \/ MmcStep \/ VblankNmi

SpecMmc3 == InitMmc3 /\ [][NextMmc3]_vars

-----------------------------------------------------------------------------
(* Claims on the MMC3 scanline counter                                     *)

\* C4: a clockScanline call requests the CPU IRQ if and only if the IRQ is
\* enabled and the call decrements the counter from 1 to 0, the counter being
\* 1 and the reload flag clear before the call.
C4_IrqOnlyOnDecrementToZero ==
    obs.act = "clockScanline" =>
        (obs.requested <=>
            (obs.pre.irqEnabled /\ obs.pre.irqCounter = 1 /\ ~obs.pre.irqReload))

\* An edge with IRQ enabled took the counter from 1 to 0 and requested the IRQ
C4_Witness ==
    /\ obs.act = "clockScanline" /\ obs.requested
    /\ obs.pre.irqCounter = 1 /\ mmc.irqCounter = 0
    /\ cpu.irqRequested /\ cpu.irqType = IRQ_NORMAL

\* C5: with latch N >= 1 written, the reload flag set and the IRQ enabled by
\* the last register writes, the mapper requests the IRQ on exactly the
\* (N+1)-th following A12 edge and on none before, and again every N+1 edges
\* while nothing is written.
C5_IrqEveryLatchPlusOneEdges ==
    (obs.act = "clockScanline" /\ hist.armed >= 1) =>
        (obs.requested <=> hist.edges % (hist.armed + 1) = 0)

\* The second IRQ of a counter armed with latch 2 or more: edge 2 * (N + 1)
C5_Witness ==
    /\ obs.act = "clockScanline" /\ obs.requested
    /\ hist.armed >= 2
    /\ hist.edges = 2 * (hist.armed + 1)

\* The counter after an edge: loaded from the latch, reload flag cleared, when
\* it was zero or the flag was set; decremented otherwise.
EdgeUpdatesCounter ==
    obs.act = "clockScanline" =>
        IF obs.pre.irqCounter = 0 \/ obs.pre.irqReload
        THEN mmc.irqCounter = obs.pre.irqLatch /\ ~mmc.irqReload
        ELSE mmc.irqCounter = obs.pre.irqCounter - 1 /\ ~mmc.irqReload

\* C6: on each edge the counter is loaded from the latch (reload flag
\* cleared) if it is zero or the flag is set, and decremented otherwise;
\* whenever the counter after the edge is zero and the IRQ is enabled, the
\* mapper asserts the IRQ.
C6_IrqWheneverCounterZero ==
    /\ EdgeUpdatesCounter
    /\ (obs.act = "clockScanline" /\ mmc.irqCounter = 0 /\ mmc.irqEnabled)
           => obs.requested

\* C6, amended: the counter is updated as stated; the mapper asserts the IRQ
\* exactly when the edge decrements the counter to zero with the IRQ enabled.
\* An edge that loads the counter, also with the value zero, asserts none.
C6_IrqWhenDecrementedToZero ==
    /\ EdgeUpdatesCounter
    /\ obs.act = "clockScanline" =>
           (obs.requested <=>
               /\ mmc.irqCounter = 0 /\ mmc.irqEnabled
               /\ ~(obs.pre.irqCounter = 0 \/ obs.pre.irqReload))

\* An edge with the reload flag set loaded a zero latch into a counter that
\* was not zero, with the IRQ enabled, and asserted no IRQ
C6_Witness ==
    /\ obs.act = "clockScanline"
    /\ obs.pre.irqReload /\ obs.pre.irqCounter > 0 /\ obs.pre.irqLatch = 0
    /\ mmc.irqCounter = 0 /\ mmc.irqEnabled /\ ~mmc.irqReload
    /\ ~obs.requested

\* C7: a write to an even address of $E000-$FFFF disables the mapper IRQ and
\* clears a pending CPU IRQ request, leaving a pending NMI or RESET alone;
\* until a write to an odd address of that range no edge requests the IRQ
\* while the counter keeps reloading and decrementing; the enabling write
\* requests no IRQ.
C7_DisableAcknowledges ==
    /\ (obs.act = "cpuWrite" /\ obs.addr >= 57344 /\ obs.addr % 2 = 0) =>
           /\ ~mmc.irqEnabled
           /\ ~(cpu.irqRequested /\ cpu.irqType = IRQ_NORMAL)
           /\ NmiOrResetLatched(obs.pre) =>
                  (cpu.irqRequested /\ cpu.irqType = obs.pre.irqType)
    /\ (obs.act = "cpuWrite" /\ obs.addr >= 57344 /\ obs.addr % 2 = 1) =>
           /\ mmc.irqEnabled
           /\ ~RequestedIrq(obs.log)
           /\ cpu.irqRequested = obs.pre.irqRequested
           /\ cpu.irqType = obs.pre.irqType
    /\ hist.irqOff =>
           /\ ~mmc.irqEnabled
           /\ obs.act = "clockScanline" => ~obs.requested
    /\ EdgeUpdatesCounter

\* A write to $FFFE cleared the IRQ the counter had requested
C7_Witness ==
    /\ obs.act = "cpuWrite" /\ obs.addr = 65534
    /\ obs.pre.irqRequested /\ obs.pre.irqType = IRQ_NORMAL
    /\ ~cpu.irqRequested

-----------------------------------------------------------------------------
(* Controller 1 as a state machine of its methods                          *)

\* The buttons pressed and released: A, Up, Down
PadButtons == {0, 4, 5}

\* The bytes written to the strobe: 0 .. MaxStrobeData
MaxStrobeData == 3

InitPad ==
    /\ InitMachine
    /\ prg = ProgIdle
    /\ obs = [act |-> "init"]
    /\ hist = NoHist

\* controllers[1].buttonDown(button), called by the input handler
PadButtonDown ==
    \E button \in PadButtons :
        /\ pads' = [pads EXCEPT ![1] = Controller_buttonDown(@, button)]
        /\ obs' = [act |-> "buttonDown", data |-> button, pre |-> pads[1]]
        /\ UNCHANGED <<cpu, ram, mmc, prg, hist>>

\* controllers[1].buttonUp(button), called by the input handler
PadButtonUp ==
    \E button \in PadButtons :
        /\ pads' = [pads EXCEPT ![1] = Controller_buttonUp(@, button)]
        /\ obs' = [act |-> "buttonUp", data |-> button, pre |-> pads[1]]
        /\ UNCHANGED <<cpu, ram, mmc, prg, hist>>

\* controllers[1].strobe(data), controllers[2].strobe(data): a write to $4016
PadStrobe ==
    \E data \in 0 .. MaxStrobeData :
        /\ pads' = [i \in 1 .. 2 |-> Controller_strobe(pads[i], data)]
        /\ obs' = [act |-> "strobe", data |-> data, pre |-> pads[1]]
        /\ UNCHANGED <<cpu, ram, mmc, prg, hist>>

\* controllers[1].read(): a read of $4016
PadRead ==
    /\ obs' = [act |-> "read", data |-> Controller_read(pads[1]), pre |-> pads[1]]
    /\ UNCHANGED <<cpu, ram, mmc, pads, prg, hist>>

\* controllers[1].clock(), called at the end of an instruction that read $4016
PadClock ==
    /\ pads' = [pads EXCEPT ![1] = Controller_clock(@)]
    /\ obs' = [act |-> "clock", data |-> 0, pre |-> pads[1]]
    /\ UNCHANGED <<cpu, ram, mmc, prg, hist>>

NextPad == PadButtonDown \/ PadButtonUp \/ PadStrobe \/ PadRead \/ PadClock

SpecPad == InitPad /\ [][NextPad]_vars

\* C9: a strobe write changes the latched byte and the serial position only
\* when its bit 0 is clear and the strobe bit was 1 before: then the latched
\* byte becomes the current button byte and the position 0.  Every other
\* strobe write, and every buttonDown and buttonUp, leaves both unchanged.
C9_LatchOnFallingEdgeOnly ==
    /\ obs.act = "strobe" =>
           IF obs.pre.strobeByte = 1 /\ obs.data % 2 = 0
           THEN /\ pads[1].strobedState = obs.pre.currentState
                /\ pads[1].shiftRegister = 0
           ELSE /\ pads[1].strobedState = obs.pre.strobedState
                /\ pads[1].shiftRegister = obs.pre.shiftRegister
    /\ obs.act \in {"buttonDown", "buttonUp"} =>
           /\ pads[1].strobedState = obs.pre.strobedState
           /\ pads[1].shiftRegister = obs.pre.shiftRegister

\* A falling edge replaced a latched byte by a different current byte and
\* rewound a position that had advanced
C9_Witness ==
    /\ obs.act = "strobe" /\ obs.pre.strobeByte = 1 /\ obs.data = 2
    /\ obs.pre.shiftRegister > 0
    /\ obs.pre.strobedState # obs.pre.currentState
    /\ pads[1].strobedState = obs.pre.currentState
    /\ pads[1].shiftRegister = 0

-----------------------------------------------------------------------------
(* Controller 1 with all eight buttons                                     *)

\* buttonDown(button) for button 0 .. 7
AnyButtonDown ==
    \E button \in 0 .. 7 :
        /\ pads' = [pads EXCEPT ![1] = Controller_buttonDown(@, button)]
        /\ UNCHANGED <<cpu, ram, mmc, prg, obs, hist>>

\* buttonUp(button) for button 0 .. 7
AnyButtonUp ==
    \E button \in 0 .. 7 :
        /\ pads' = [pads EXCEPT ![1] = Controller_buttonUp(@, button)]
        /\ UNCHANGED <<cpu, ram, mmc, prg, obs, hist>>

\* strobe(data): a write to $4016
AnyStrobe ==
    \E data \in 0 .. 1 :
        /\ pads' = [i \in 1 .. 2 |-> Controller_strobe(pads[i], data)]
        /\ UNCHANGED <<cpu, ram, mmc, prg, obs, hist>>

\* read() followed by clock(): an instruction that reads $4016
AnyReadClock ==
    /\ Controller_read(pads[1]) \in {64, 65}
    /\ pads' = [pads EXCEPT ![1] = Controller_clock(@)]
    /\ UNCHANGED <<cpu, ram, mmc, prg, obs, hist>>

NextButtons == AnyButtonDown \/ AnyButtonUp \/ AnyStrobe \/ AnyReadClock

SpecButtons == InitPad /\ [][NextButtons]_vars

\* Up and Down, or Left and Right, both set in a button byte
Opposed(byte) ==
    \/ Bit(byte, 4) = 1 /\ Bit(byte, 5) = 1
    \/ Bit(byte, 6) = 1 /\ Bit(byte, 7) = 1

\* C10: in every state reachable by buttonDown and buttonUp of buttons 0..7,
\* strobe, read and clock, neither the current nor the latched button byte
\* has Up and Down both set or Left and Right both set.
C10_NoOpposedDirections ==
    ~Opposed(pads[1].currentState) /\ ~Opposed(pads[1].strobedState)

\* Right was pressed while Left, latched before, was held: the current byte
\* holds Right without Left, the latched byte Left without Right
C10_Witness ==
    /\ Bit(pads[1].strobedState, 6) = 1 /\ Bit(pads[1].strobedState, 7) = 0
    /\ Bit(pads[1].currentState, 7) = 1 /\ Bit(pads[1].currentState, 6) = 0
    /\ Bit(pads[1].currentState, 4) = 1

-----------------------------------------------------------------------------
(* Controller 1 polled by a program                                        *)

\* Nine LDA $4016
NineReads ==
    <<173, 22, 64, 173, 22, 64, 173, 22, 64, 173, 22, 64, 173, 22, 64,
      173, 22, 64, 173, 22, 64, 173, 22, 64, 173, 22, 64>>

\* main: LDA #1; STA $4016; LDA #0; STA $4016; LDA $4016 (x 9); JMP $C000
ProgPollStore ==
    At(49152, <<169, 1, 141, 22, 64, 169, 0, 141, 22, 64>> \o NineReads \o
              <<76, 0, 192>>) @@ Vectors

\* main: LDA #1; STA $4016; LSR $4016; LDA $4016 (x 9); JMP $C000
ProgPollShift ==
    At(49152, <<169, 1, 141, 22, 64, 78, 22, 64>> \o NineReads \o
              <<76, 0, 192>>) @@ Vectors

\* Bound of the polling specification: one pass of the loop and the start of
\* the next
MaxPollCycles == 60

InitPoll ==
    /\ InitMachine
    /\ prg \in {ProgPollStore, ProgPollShift}
    /\ obs = [act |-> "init"]
    /\ hist = NoHist

\* The bit a read of $4016 is to return after the strobe fell: bits 0..7 of
\* the byte held at the fall, then 1
ExpectedBit(st) == IF st.n < 8 THEN Bit(st.byte, st.n) ELSE 1

\* The accesses to $4016 of one instruction, in order, against the ghost st:
\* a read while the strobe has fallen and stayed low is compared with the
\* expected bit; a write moves the strobe line, a falling write starts a new
\* series with the current button byte cur.
RECURSIVE PollFold(_, _, _, _)
PollFold(log, i, st, cur) ==
    IF i > Len(log) THEN st
    ELSE LET e == log[i]
             next ==
                 IF e.op = "read" /\ e.a = 16406
                 THEN IF st.valid
                      THEN [st EXCEPT !.readNow = TRUE,
                                      !.ok = @ /\ e.v % 2 = ExpectedBit(st)
                                               /\ Bit(e.v, 6) = 1]
                      ELSE st
                 ELSE IF e.op = "write" /\ e.a = 16406
                 THEN IF st.line = 1 /\ e.v % 2 = 0
                      THEN [st EXCEPT !.valid = TRUE, !.byte = cur, !.n = 0,
                                      !.line = 0, !.readNow = FALSE]
                      ELSE IF e.v % 2 = 1
                      THEN [st EXCEPT !.valid = FALSE, !.line = 1]
                      ELSE st
                 ELSE st
         IN  PollFold(log, i + 1, next, cur)

\* The ghost of the controller port after an instruction left the fold st
PollObserved(st) ==
    /\ obs' = [act |-> "pollStep", ok |-> st.ok, readNow |-> st.readNow,
               n |-> hist.poll.n]
    /\ hist' = [hist EXCEPT !.poll =
                  [valid |-> st.valid, byte |-> st.byte, line |-> st.line,
                   n |-> IF st.valid /\ st.readNow /\ st.n < 8
                         THEN st.n + 1 ELSE st.n]]

\* The machine m an instruction left, and its accesses to $4016 judged
PollStepTo(m) ==
    /\ Commit(m)
    /\ PollObserved(PollFold(m.log, 1,
                             [valid |-> hist.poll.valid, byte |-> hist.poll.byte,
                              n |-> hist.poll.n, line |-> hist.poll.line,
                              readNow |-> FALSE, ok |-> TRUE],
                             pads[1].currentState))

\* cpu.step() of the polling program
PollStep ==
    /\ cpu.cycleCount < MaxPollCycles
    /\ PollStepTo(step(Mach).m)

NextPoll == PollStep \/ PadButtonDown \/ PadButtonUp

SpecPoll == InitPoll /\ [][NextPoll]_vars

\* C8: after writes to $4016 that take the strobe bit from 1 to 0, the strobe
\* left at 0, the next eight instructions that read $4016 return in bit 0 the
\* bits 0..7 of the byte latched at the falling edge, in this order; every
\* later read returns 1 in bit 0; bit 6 of each of these reads is 1.
C8_SerialReadOrder == obs.act = "pollStep" => obs.ok

-----------------------------------------------------------------------------
(* Claims on the DMA stall                                                 *)

\* A step() that consumes one stall cycle: it returns 1, takes one from the
\* stall counter, adds one to cycleCount and leaves every other field, the
\* memory, the mapper and the controllers alone; it makes no bus access and
\* dispatches no interrupt.
StallStepOnlyCounts ==
    /\ cpu.cyclesToHalt > 0
    /\ obs'.cycles = 1
    /\ obs'.log = <<>>
    /\ cpu' = [cpu EXCEPT !.cyclesToHalt = @ - 1, !.cycleCount = @ + 1]
    /\ ram' = ram /\ mmc' = mmc /\ pads' = pads

\* C11: while the stall counter is positive every step() returns 1,
\* decrements the counter, adds one to cycleCount and changes nothing else
\* (no opcode fetch, no register, flag or memory change, no interrupt
\* dispatch); a step() with the counter at zero fetches an instruction; a
\* haltCycles(n) adds n to the counter, whether a stall is in progress or not.
C11_StallConsumesCycles ==
    [][/\ obs'.act = "stall" => StallStepOnlyCounts
       /\ obs'.act = "step" =>
              /\ cpu.cyclesToHalt = 0
              /\ \E i \in DOMAIN obs'.log : obs'.log[i].op = "boundary"
       /\ obs'.act = "haltCycles" =>
              /\ cpu' = [cpu EXCEPT !.cyclesToHalt = @ + obs'.n]
              /\ ram' = ram /\ mmc' = mmc /\ pads' = pads]_vars

\* The last cycle of a stall was consumed, after two cycles or more, with an
\* interrupt request pending
C11_Witness ==
    /\ obs.act = "stall"
    /\ obs.pre.cyclesToHalt = 1
    /\ obs.pre.cycleCount >= 2
    /\ obs.pre.irqRequested
    /\ cpu.cyclesToHalt = 0

-----------------------------------------------------------------------------
(* The CPU bus as a state machine of cpuRead and cpuWrite                  *)

\* The addresses accessed: RAM $0801 (mirror of $0001); PPU $2002; APU/IO
\* $4000, $4014, $4016, $4017; cartridge $5000, $6000, $7000, $8000, $A001
BusAddrs ==
    {2049, 8194, 16384, 16404, 16406, 16407, 20480, 24576, 28672, 32768, 40961}

\* The bytes written
BusValues == {0, 65, 240}

\* What the PPU, the APU and the Zapper answer during a call to an address
BusIo(addr) ==
    IF addr \in {8194, 16384, 16407}
    THEN {NoIo, [ppu |-> 128, apu |-> 64, light |-> TRUE, fired |-> TRUE]}
    ELSE {NoIo}

\* OAM DMAs requested before the stall is consumed; bus calls made
MaxDma == 1
MaxBusCalls == 3

InitBus ==
    /\ cpu = CPU_reset
    /\ ram = <<>>
    /\ mmc \in {Mapper004_loadROM, Mapper006_loadROM, Mapper002_reset}
    /\ pads = [i \in 1 .. 2 |-> NewController]
    /\ prg = ProgIdle
    /\ obs = [act |-> "init"]
    /\ hist = NoHist

\* cpu.cpuRead(addr)
BusRead ==
    \E addr \in BusAddrs : \E io \in BusIo(addr) :
        /\ hist.calls < MaxBusCalls
        /\ LET r == cpuRead([Mach EXCEPT !.io = io], addr)
           IN  /\ Commit(r.m)
               /\ obs' = [act |-> "cpuRead", addr |-> addr, v |-> r.v, io |-> io,
                          log |-> r.m.log, pre |-> cpu.dataBus]
               /\ hist' = [hist EXCEPT !.calls = @ + 1]

\* cpu.cpuWrite(addr, val)
BusWrite ==
    \E addr \in BusAddrs, val \in BusValues :
        /\ hist.calls < MaxBusCalls
        /\ addr = 16404 => cpu.cyclesToHalt < MaxDma * 513
        /\ LET m == cpuWrite(Mach, addr, val)
           IN  /\ Commit(m)
               /\ obs' = [act |-> "cpuWrite", addr |-> addr, val |-> val,
                          log |-> m.log, pre |-> cpu.dataBus]
               /\ hist' = [hist EXCEPT !.calls = @ + 1]

NextBus == BusRead \/ BusWrite

SpecBus == InitBus /\ [][NextBus]_vars

-----------------------------------------------------------------------------
(* Claims on the bus: catch-up, data bus latch, open bus                   *)

\* In a call's log a catchUp comes before every access of the kinds ops that
\* a device received, and there is one
CatchUpFirst(log, ops) ==
    \E j \in DOMAIN log :
        /\ log[j].op = "catchUp"
        /\ \A i \in DOMAIN log : log[i].op \in ops => j < i

\* The addresses whose writes go to the PPU, the APU or the mapper
WriteReachesDevice(addr) ==
    \/ addr >= 8192 /\ addr < 16384
    \/ addr = 16404
    \/ addr >= 16384 /\ addr <= 16403
    \/ addr = 16405 \/ addr = 16407
    \/ addr >= 16416 /\ addr <= 65535

\* C12: every cpuWrite delivered to the PPU ($2000-$3FFF, $4014), to the APU
\* ($4000-$4013, $4015, $4017) or to the mapper ($4020-$FFFF) calls catchUp
\* before the device receives the write.
C12_CatchUpBeforeDeviceWrite ==
    obs.act = "cpuWrite" /\ WriteReachesDevice(obs.addr) =>
        CatchUpFirst(obs.log, {"ppuWrite", "doDMA", "apuWrite", "mmapWrite"})

\* C13: every cpuRead whose value comes from the PPU registers ($2000-$3FFF)
\* or from the mapper ($4020-$FFFF) calls catchUp before the device is read.
C13_CatchUpBeforeDeviceRead ==
    obs.act = "cpuRead" /\
    ((obs.addr >= 8192 /\ obs.addr < 16384) \/ obs.addr >= 16416) =>
        CatchUpFirst(obs.log, {"ppuRead", "mmapRead"})

\* C14: after cpuRead(addr) the data bus latch holds the value returned, and
\* after cpuWrite(addr, v) it holds v, for RAM, PPU, APU/IO and cartridge
\* addresses.
C14_LatchFollowsBus ==
    /\ obs.act = "cpuRead" => cpu.dataBus = obs.v
    /\ obs.act = "cpuWrite" => cpu.dataBus = obs.val

\* A byte stored in cartridge RAM was read back over a different latch value
C14_Witness ==
    /\ obs.act = "cpuRead"
    /\ obs.addr \in {24576, 28672}
    /\ obs.v = 240
    /\ obs.pre = 65
    /\ cpu.dataBus = 240

\* No device drives the bus for this read: a cartridge address below $8000
\* on UNROM, or an APU/IO address for which the APU returns undefined
Undriven ==
    \/ mmc.mapper = 2 /\ obs.addr >= 16416 /\ obs.addr < 32768
    \/ /\ obs.addr >= 16384 /\ obs.addr < 16416
       /\ obs.addr \notin {16406, 16407}
       /\ obs.io.apu = Undefined

\* C15: a cpuRead of an address that no device drives returns the data bus
\* latch as it was and leaves it unchanged.
C15_OpenBusReturnsLatch ==
    obs.act = "cpuRead" /\ Undriven =>
        obs.v = obs.pre /\ cpu.dataBus = obs.pre

\* $5000 on UNROM was read with $F0 on the bus
C15_Witness ==
    /\ obs.act = "cpuRead"
    /\ mmc.mapper = 2
    /\ obs.addr = 20480
    /\ obs.pre = 240
    /\ obs.v = 240

-----------------------------------------------------------------------------
(* Single instructions: every opcode executed after a fixed preamble       *)

\* The accumulator the preamble leaves
OpAcc == 197

\* The preamble: LDA #ctl; STA $A001; LDA #$FF; STA $10; LDA #b2; STA $11;
\* LDX #idx; LDY #idx; LDA #OpAcc.  It writes the cartridge's RAM control,
\* leaves the pointer $b2FF at $10 and the index idx in X and Y.
OpPreamble(ctl, b2, idx) ==
    <<169, ctl, 141, 1, 160, 169, 255, 133, 16, 169, b2, 133, 17,
      162, idx, 160, idx, 169, OpAcc>>

\* The instructions of the preamble
PreambleSteps == 9

\* The instruction op b1 b2 right after the preamble
ProgOpInline(op, b1, b2, ctl, idx) ==
    At(49152, OpPreamble(ctl, b2, idx) \o <<op, b1, b2>>) @@ Vectors

\* The opcode op at $FFFF, reached by JMP $FFFF; its operand bytes are then
\* fetched at $10000 and $10001, which the mapper decodes as $8000 and $8001
ProgOpTop(op, b1, b2, ctl, idx) ==
    At(65535, <<op>>) @@ At(32768, <<b1, b2>>) @@
    At(49152, OpPreamble(ctl, b2, idx) \o <<76, 255, 255>>) @@ Vectors

\* The cartridges: MMC3 with PRG-RAM disabled or enabled, MMC6 with its RAM
\* disabled: the mapper and the byte the preamble writes to $A001
OpCarts == {<<4, 0>>, <<4, 128>>, <<6, 0>>}

\* The operand bytes and the index values
OpLow == {16, 255}
OpHigh == {95, 96}
OpIndex == {0, 1}

\* Steps made: the preamble, the jump to $FFFF, the instruction under test
MaxOpSteps == 11

InitOp ==
    \E op \in 0 .. 255, b1 \in OpLow, b2 \in OpHigh, idx \in OpIndex,
       cart \in OpCarts, top \in BOOLEAN :
        /\ cpu = CPU_reset
        /\ ram = <<>>
        /\ mmc = IF cart[1] = 6 THEN Mapper006_loadROM ELSE Mapper004_loadROM
        /\ pads = [i \in 1 .. 2 |-> NewController]
        /\ prg = IF top THEN ProgOpTop(op, b1, b2, cart[2], idx)
                 ELSE ProgOpInline(op, b1, b2, cart[2], idx)
        /\ obs = [act |-> "init"]
        /\ hist = [NoHist EXCEPT !.test =
                      [step |-> IF top THEN PreambleSteps + 1 ELSE PreambleSteps,
                       op |-> op, b1 |-> b1, b2 |-> b2, idx |-> idx]]

\* The step r observed: what it logged and returned, and the state it began in
OpStepTo(r) ==
    /\ Commit(r.m)
    /\ obs' = [act |-> "opStep", n |-> hist.calls, log |-> r.m.log,
               cycles |-> r.cycles, pre |-> cpu, preRam |-> ram, preMmc |-> mmc]
    /\ hist' = [hist EXCEPT !.calls = @ + 1]

\* cpu.step()
OpStep ==
    /\ hist.calls < MaxOpSteps
    /\ OpStepTo(step(Mach))

NextOp == OpStep

SpecOp == InitOp /\ [][NextOp]_vars

\* The state after the step that executed the instruction under test
Tested == obs.act = "opStep" /\ obs.n = hist.test.step

\* The decode table's entry of the opcode under test: instruction size and
\* base cycles
TestSize == (OPDATA[hist.test.op + 1] \div 65536) % 256
TestCycles == OPDATA[hist.test.op + 1] \div 16777216

-----------------------------------------------------------------------------
(* Claims on open-bus reads of cartridge RAM                               *)

\* The cartridge does not drive a read of addr in $6000-$7FFF: MMC3 with
\* PRG-RAM disabled; MMC6 for $6000-$6FFF and for a RAM half ($7000-$7FFF,
\* 512 bytes each, mirrored) whose read-enable bit is clear
PrgRamOpenBus(mc, addr) ==
    /\ addr >= 24576 /\ addr < 32768
    /\ IF mc.mapper = 6
       THEN \/ addr < 28672
            \/ Bit(mc.ramControl, IF addr % 1024 < 512 THEN 6 ELSE 7) = 0
       ELSE ~mc.prgRamEnabled

\* The data bus latch when access i of a call's log begins: the byte of the
\* last read or write before it, or the latch d the call began with
LatchBefore(log, i, d) ==
    LET prev == {j \in 1 .. (i - 1) : log[j].op \in {"read", "write"}}
    IN  IF prev = {} THEN d
        ELSE log[CHOOSE j \in prev : \A k \in prev : k <= j].v

\* C16: with MMC3 PRG-RAM disabled, and on MMC6 for $6000-$6FFF or a RAM
\* half whose read-enable bit is clear, every CPU read in $6000-$7FFF made by
\* an instruction, in any addressing mode, returns the data bus latch: the
\* last byte transferred on the CPU bus before that read.
C16_PrgRamOpenBusReturnsLatch ==
    obs.act = "opStep" =>
        \A i \in DOMAIN obs.log :
            obs.log[i].op = "read" /\ PrgRamOpenBus(obs.preMmc, obs.log[i].a) =>
                obs.log[i].v = LatchBefore(obs.log, i, obs.pre.dataBus)

-----------------------------------------------------------------------------
(* Claims on instruction size and undefined opcodes                        *)

\* JMP, JMP (ind), JSR, RTS, RTI, BRK
ControlFlowOpcodes == {76, 108, 32, 96, 64, 0}

\* The branch opcode op is taken in the CPU state c: BPL, BMI, BVC, BVS, BCC,
\* BCS, BNE, BEQ
BranchTaken(op, c) ==
    CASE op = 16 -> c.F_SIGN = 0
      [] op = 48 -> c.F_SIGN = 1
      [] op = 80 -> c.F_OVERFLOW = 0
      [] op = 112 -> c.F_OVERFLOW = 1
      [] op = 144 -> c.F_CARRY = 0
      [] op = 176 -> c.F_CARRY = 1
      [] op = 208 -> c.F_ZERO # 0
      [] op = 240 -> c.F_ZERO = 0
      [] OTHER -> FALSE

\* The opcodes for which buildOpData sets no instruction
UndefinedOpcodes ==
    {2, 18, 34, 50, 66, 82, 98, 114, 139, 146, 147, 155, 156, 158, 159, 171,
     178, 187, 210, 235, 242}

\* The registers and flags of two CPU states are the same
SameRegisters(c, d) ==
    /\ c.REG_ACC = d.REG_ACC /\ c.REG_X = d.REG_X /\ c.REG_Y = d.REG_Y
    /\ c.REG_SP = d.REG_SP
    /\ c.F_CARRY = d.F_CARRY /\ c.F_ZERO = d.F_ZERO
    /\ c.F_INTERRUPT = d.F_INTERRUPT /\ c.F_DECIMAL = d.F_DECIMAL
    /\ c.F_BRK = d.F_BRK /\ c.F_NOTUSED = d.F_NOTUSED
    /\ c.F_OVERFLOW = d.F_OVERFLOW /\ c.F_SIGN = d.F_SIGN

\* C17: for every opcode 0..255 that is not a taken branch, JMP, JSR, RTS,
\* RTI or BRK, a step that dispatches no interrupt advances the program
\* counter by the size the decode table gives for the opcode (1, 2 or 3),
\* modulo 2^16; an opcode without a defined instruction is a 1-byte, 2-cycle
\* NOP that changes no register, flag or memory byte.
C17_PcAdvancesBySize ==
    Tested /\ DispatchedTypes(obs.log) = {} =>
        /\ hist.test.op \notin ControlFlowOpcodes /\
           ~BranchTaken(hist.test.op, obs.pre) =>
              /\ TestSize \in {1, 2, 3}
              /\ cpu.REG_PC = (obs.pre.REG_PC + TestSize) % 65536
        /\ hist.test.op \in UndefinedOpcodes =>
              /\ TestSize = 1
              /\ obs.cycles = 2
              /\ SameRegisters(cpu, obs.pre)
              /\ ram = obs.preRam
              /\ mmc = obs.preMmc

\* LDA abs (3 bytes) fetched at $FFFF took the program counter around to
\* $0002 (REG_PC holds the address before the next instruction)
C17_Witness ==
    /\ Tested
    /\ hist.test.op = 173
    /\ obs.pre.REG_PC = 65534
    /\ cpu.REG_PC = 1

-----------------------------------------------------------------------------
(* Claims on page-crossing cycles                                          *)

\* The standard opcodes of the reading instructions in the indexed modes:
\* ADC, AND, CMP, EOR, LDA, LDY, ORA, SBC abs,X
ReadAbsX == {125, 61, 221, 93, 189, 188, 29, 253}
\* ADC, AND, CMP, EOR, LDA, LDX, ORA, SBC, LAX abs,Y
ReadAbsY == {121, 57, 217, 89, 185, 190, 25, 249, 191}
\* ADC, AND, CMP, EOR, LDA, ORA, SBC, LAX (d),Y
ReadIndY == {113, 49, 209, 81, 177, 17, 241, 179}

\* The standard opcodes of the stores and read-modify-writes in these modes:
\* STA, ASL, LSR, ROL, ROR, INC, DEC, SLO, RLA, SRE, RRA, DCP, ISC abs,X
WriteAbsX == {157, 30, 94, 62, 126, 254, 222, 31, 63, 95, 127, 223, 255}
\* STA, SLO, RLA, SRE, RRA, DCP, ISC abs,Y
WriteAbsY == {153, 27, 59, 91, 123, 219, 251}
\* STA, SLO, RLA, SRE, RRA, DCP, ISC (d),Y
WriteIndY == {145, 19, 51, 83, 115, 211, 243}

\* The address the instruction under test indexes: its operand word, or for
\* (d),Y the word its zero-page pointer held
IndexedBase ==
    IF hist.test.op \in ReadIndY \cup WriteIndY
    THEN Cell(obs.preRam, hist.test.b1) +
         256 * Cell(obs.preRam, (hist.test.b1 + 1) % 256)
    ELSE hist.test.b1 + 256 * hist.test.b2

\* Adding the index crosses a page
PageCrossed == Page(IndexedBase) # Page(IndexedBase + hist.test.idx)

\* The un-indexed high byte with the wrapped low byte
DummyReadAddr == Page(IndexedBase) * 256 + ((IndexedBase + hist.test.idx) % 256)

\* C18: in abs,X, abs,Y and (d),Y addressing with a page crossed, ADC, AND,
\* CMP, EOR, LDA, LDX, LDY, ORA, SBC and LAX (by their standard opcodes)
\* return the table's base cycles plus 1 and make a dummy read at the
\* un-indexed high byte with the wrapped low byte; stores and
\* read-modify-writes (STA, ASL, LSR, ROL, ROR, INC, DEC, SLO, RLA, SRE, RRA,
\* DCP, ISC) return the same cycle count whether or not a page is crossed.
C18_PageCrossCycles ==
    Tested =>
        /\ hist.test.op \in ReadAbsX \cup ReadAbsY \cup ReadIndY /\ PageCrossed =>
              /\ obs.cycles = TestCycles + 1
              /\ \E i \in DOMAIN obs.log :
                     obs.log[i].op = "read" /\ obs.log[i].a = DummyReadAddr
        /\ hist.test.op \in WriteAbsX \cup WriteAbsY \cup WriteIndY =>
              obs.cycles = TestCycles

-----------------------------------------------------------------------------
(* Claims on read-modify-write and the illegal load and store              *)

\* The standard opcodes of the read-modify-write instructions on memory:
\* ASL, LSR, ROL, ROR, INC, DEC, then SLO, RLA, SRE, RRA, DCP, ISC
RmwOpcodes ==
    {6, 22, 14, 30} \cup {70, 86, 78, 94} \cup {38, 54, 46, 62} \cup
    {102, 118, 110, 126} \cup {230, 246, 238, 254} \cup {198, 214, 206, 222} \cup
    {3, 7, 15, 19, 23, 27, 31} \cup {35, 39, 47, 51, 55, 59, 63} \cup
    {67, 71, 79, 83, 87, 91, 95} \cup {99, 103, 111, 115, 119, 123, 127} \cup
    {195, 199, 207, 211, 215, 219, 223} \cup {227, 231, 239, 243, 247, 251, 255}

\* The CPU's bus accesses of a step, in order
BusAccesses(log) == SelectSeq(log, LAMBDA e : e.op \in {"read", "write"})

\* C19: every read-modify-write instruction on memory (ASL, LSR, ROL, ROR,
\* INC, DEC and the illegal SLO, RLA, SRE, RRA, DCP, ISC, by their standard
\* opcodes) ends with one read of the target address, one write of the value
\* read to it, and one write to it again, in this order.
C19_RmwReadWriteWrite ==
    Tested /\ hist.test.op \in RmwOpcodes =>
        LET acc == BusAccesses(obs.log)
            n == Len(acc)
        IN  /\ n >= 3
            /\ acc[n - 2].op = "read"
            /\ acc[n - 1] = [acc[n - 2] EXCEPT !.op = "write"]
            /\ acc[n].op = "write"
            /\ acc[n].a = acc[n - 2].a

\* The standard opcodes of LAX and of SAX
LaxOpcodes == {163, 167, 175, 179, 183, 191}
SaxOpcodes == {131, 135, 143, 151}

\* The last bus access of the step under test: the operand access
OperandAccess == BusAccesses(obs.log)[Len(BusAccesses(obs.log))]

\* C20: each LAX opcode ($A3, $A7, $AF, $B3, $B7, $BF) loads the operand byte
\* into both A and X and sets N and Z from it; each SAX opcode ($83, $87,
\* $8F, $97) writes A AND X to the operand address and leaves A, X and all
\* flags unchanged.
C20_LaxLoadsSaxStores ==
    Tested =>
        /\ hist.test.op \in LaxOpcodes =>
              /\ OperandAccess.op = "read"
              /\ cpu.REG_ACC = OperandAccess.v
              /\ cpu.REG_X = OperandAccess.v
              /\ cpu.F_SIGN = Bit(OperandAccess.v, 7)
              /\ (cpu.F_ZERO = 0) <=> (OperandAccess.v = 0)
        /\ hist.test.op \in SaxOpcodes =>
              /\ OperandAccess.op = "write"
              /\ OperandAccess.v = BitAnd(obs.pre.REG_ACC, obs.pre.REG_X)
              /\ SameRegisters(cpu, obs.pre)

-----------------------------------------------------------------------------
(* Control flow: reset, BRK, JSR/RTS, JMP (ind), branches, interrupts      *)

\* The scenarios.  Every program starts at its reset vector with
\*   LDX #s; TXS; LDA #p; PHA; PLP; JMP a
\* which leaves S = s and the flags of the status byte p, and continues at a
\* with the body of its kind:
\*   "brk": BRK                 "jsr": JSR $C200 (there: RTS)
\*   "jmp": JMP (b1 + 256 b2)   "bra": the branch op with offset b1
\*   "int": NOP; NOP; JMP a
\* NMI handler at $D000: RTI (h = 1) or CLI; LDA #0; RTI (h = 2);
\* IRQ/BRK handler at $E000: SEC; SED; RTI.
FlowVectors == {49152, 57005}
FlowStack == {253, 1, 0}
FlowStatus == {0, 195, 60}
FlowAddrs == {49408, 49405, 49406}
BranchOpcodes == {16, 48, 80, 112, 144, 176, 208, 240}
FlowOffsets == {4, 252, 127, 128}
FlowPointers == {<<255, 195>>, <<16, 195>>}

\* The instructions of the preamble
FlowPreambleSteps == 6

\* The scenarios: kind, opcode under test, operand bytes, NMI handler
FlowTests ==
    {[kind |-> "brk", op |-> 0, b1 |-> 0, b2 |-> 0, h |-> 1]} \cup
    {[kind |-> "jsr", op |-> 32, b1 |-> 0, b2 |-> 194, h |-> 1]} \cup
    {[kind |-> "jmp", op |-> 108, b1 |-> q[1], b2 |-> q[2], h |-> 1] :
        q \in FlowPointers} \cup
    {[kind |-> "bra", op |-> o, b1 |-> rel, b2 |-> 0, h |-> 1] :
        o \in BranchOpcodes, rel \in FlowOffsets} \cup
    {[kind |-> "int", op |-> 234, b1 |-> 0, b2 |-> 0, h |-> h] : h \in {1, 2}}

\* The PRG-ROM image of scenario t with reset vector vec, stack pointer s,
\* status p and body address a
ProgFlow(t, vec, s, p, a) ==
    LET ptr == t.b1 + 256 * t.b2
        body == CASE t.kind = "brk" -> At(a, <<0>>)
                  [] t.kind = "jsr" -> At(a, <<32, 0, 194>>) @@ At(49664, <<96>>)
                  [] t.kind = "jmp" ->
                       At(a, <<108, t.b1, t.b2>>) @@ At(ptr, <<0>>) @@
                       At(256 * Page(ptr) + ((ptr + 1) % 256), <<196>>) @@
                       At(ptr + 1, <<197>>)
                  [] t.kind = "bra" -> At(a, <<t.op, t.b1>>)
                  [] OTHER -> At(a, <<234, 234, 76, a % 256, a \div 256>>)
        nmi == IF t.h = 1 THEN <<64>> ELSE <<88, 169, 0, 64>>
    IN  At(vec, <<162, s, 154, 169, p, 72, 40, 76, a % 256, a \div 256>>) @@
        body @@ At(53248, nmi) @@ At(57344, <<56, 248, 64>>) @@
        At(65530, <<0, 208, vec % 256, vec \div 256, 0, 224>>)

\* Bounds of the control-flow specification
MaxFlowSteps == 9
MaxFlowRequests == 2

InitFlow ==
    \E t \in FlowTests, vec \in FlowVectors, s \in FlowStack, p \in FlowStatus,
       a \in FlowAddrs, cart \in {0, 4} :
        /\ cpu = CPU_reset
        /\ ram = <<>>
        /\ mmc = IF cart = 0 THEN Mapper000_reset ELSE Mapper004_loadROM
        /\ pads = [i \in 1 .. 2 |-> NewController]
        /\ prg = ProgFlow(t, vec, s, p, a)
        /\ obs = [act |-> "init"]
        /\ hist = [NoHist EXCEPT !.test =
                      [step |-> FlowPreambleSteps, op |-> t.op, b1 |-> t.b1,
                       b2 |-> t.b2, idx |-> 0, kind |-> t.kind, vec |-> vec,
                       s |-> s, p |-> p, a |-> a, nreq |-> 0]]

\* The opcode a step fetched: the first read after the instruction boundary
FetchedOpcode(log) ==
    LET b == CHOOSE i \in DOMAIN log : log[i].op = "boundary"
        j == CHOOSE k \in b + 1 .. Len(log) :
                 /\ log[k].op = "read"
                 /\ \A x \in b + 1 .. k - 1 : log[x].op # "read"
    IN  log[j].v

\* An NMI or IRQ sequence ran in the step
Dispatched(log) ==
    \E i \in DOMAIN log : log[i].op = "dispatch" /\ log[i].a \in {IRQ_NORMAL, IRQ_NMI}

\* The frame of an interrupt dispatched from CPU state c: the address of the
\* next instruction, the state before the dispatch, S just after it and the
\* three bytes written to the stack
Frame(c, log) ==
    LET w == SelectSeq(log, LAMBDA e : e.op = "write")
    IN  [pc |-> (c.REG_PC + 1) % 65536, c |-> c, sp |-> (c.REG_SP - 3) % 256,
         bytes |-> <<w[1].v, w[2].v, w[3].v>>]

\* The frames after a step from CPU state c that logged log and left RAM mem:
\* a dispatch opens a frame; an RTI executed with S at the value the top
\* frame's dispatch left and its three bytes still on the stack closes it.
\* [frames, rti]: rti holds the frame closed, if any
FramesAfter(frames, c, log, mem) ==
    LET opened == IF Dispatched(log) THEN Append(frames, Frame(c, log)) ELSE frames
        spBefore == IF Dispatched(log) THEN (c.REG_SP - 3) % 256 ELSE c.REG_SP
        slot(k) == Cell(mem, 256 + ((spBefore + k) % 256))
        closes(f) ==
            /\ FetchedOpcode(log) = 64
            /\ f.sp = spBefore
            /\ f.bytes = <<slot(3), slot(2), slot(1)>>
    IN  IF opened # <<>> /\ closes(opened[Len(opened)])
        THEN [frames |-> SubSeq(opened, 1, Len(opened) - 1),
              rti |-> <<opened[Len(opened)]>>]
        ELSE [frames |-> opened, rti |-> <<>>]

\* The step r observed
FlowStepTo(r, fr) ==
    /\ Commit(r.m)
    /\ obs' = [act |-> "flowStep", n |-> hist.calls, log |-> r.m.log,
               cycles |-> r.cycles, pre |-> cpu, preRam |-> ram,
               reqs |-> hist.reqs, rti |-> fr.rti]
    /\ hist' = [hist EXCEPT !.calls = @ + 1, !.reqs = {}, !.frames = fr.frames]

\* cpu.step()
FlowStepOf(r) == FlowStepTo(r, FramesAfter(hist.frames, cpu, r.m.log, r.m.ram))

FlowStep ==
    /\ hist.calls < MaxFlowSteps
    /\ FlowStepOf(step(Mach))

\* cpu.requestIrq(type) by the PPU (NMI) or by the APU or mapper (IRQ), in the
\* scenarios that take interrupts
FlowRequest ==
    \E type \in {IRQ_NORMAL, IRQ_NMI} :
        /\ hist.test.kind = "int"
        /\ hist.test.nreq < MaxFlowRequests
        /\ hist.calls < MaxFlowSteps
        /\ Commit(requestIrq(Mach, type))
        /\ obs' = [act |-> "requestIrq", type |-> type]
        /\ hist' = [hist EXCEPT !.reqs = @ \cup {type}, !.test.nreq = @ + 1]

NextFlow == FlowStep \/ FlowRequest

SpecFlow == InitFlow /\ [][NextFlow]_vars

\* The state after the step that executed the instruction under test
FlowTested(kind) ==
    obs.act = "flowStep" /\ obs.n = hist.test.step /\ hist.test.kind = kind

\* The writes of a step, in order
Writes(log) == SelectSeq(log, LAMBDA e : e.op = "write")

-----------------------------------------------------------------------------
(* Claims on control flow                                                  *)

\* C21: after power-on or reset(), with no other interrupt requested, the
\* first step() reads the little-endian word at $FFFC/$FFFD and fetches and
\* executes the instruction stored at that address; at that fetch S is $FD,
\* I is 1 and nothing has been written to the stack.
C21_ResetVector ==
    obs.act = "flowStep" /\ obs.n = 0 /\ obs.reqs = {} =>
        \E i \in DOMAIN obs.log :
            /\ obs.log[i] = Ev("boundary", hist.test.vec, 1)
            /\ \A k \in 1 .. i - 1 : obs.log[k].op # "write"
            /\ obs.pre.REG_SP = 253
            /\ \E d \in 1 .. i - 1 : obs.log[d] = Ev("dispatch", IRQ_RESET, 0)
            /\ \E l, h \in 1 .. i - 1 :
                   /\ l < h
                   /\ obs.log[l] = Ev("read", 65532, hist.test.vec % 256)
                   /\ obs.log[h] = Ev("read", 65533, hist.test.vec \div 256)
            \* the instruction at the vector is LDX #s, and it is executed
            /\ FetchedOpcode(obs.log) = 162
            /\ cpu.REG_X = hist.test.s
            /\ cpu.REG_PC = hist.test.vec + 1

\* The first step of a program whose reset vector holds $AD,$DE fetched at
\* $DEAD
C21_Witness ==
    /\ obs.act = "flowStep" /\ obs.n = 0 /\ obs.reqs = {}
    /\ hist.test.vec = 57005
    /\ mmc.mapper = 0
    /\ cpu.REG_PC = 57006

\* The status byte of CPU state c with bits 4 (B) and 5 set
StatusWithBreak(c) ==
    c.F_CARRY + 2 * (IF c.F_ZERO = 0 THEN 1 ELSE 0) + 4 * c.F_INTERRUPT +
    8 * c.F_DECIMAL + 16 + 32 + 64 * c.F_OVERFLOW + 128 * c.F_SIGN

\* C22: BRK at address a pushes the high byte then the low byte of a + 2,
\* then the status byte with bits 4 and 5 set and the other bits equal to the
\* flags before BRK, lowers S by 3 modulo 256, sets I and continues at the
\* word stored at $FFFE/$FFFF.
C22_BrkSequence ==
    FlowTested("brk") =>
        LET a == hist.test.a
            sp == obs.pre.REG_SP
        IN  /\ FetchedOpcode(obs.log) = 0
            /\ Writes(obs.log) =
                   << Ev("write", 256 + sp, Page(a + 2)),
                      Ev("write", 256 + ((sp - 1) % 256), (a + 2) % 256),
                      Ev("write", 256 + ((sp - 2) % 256), StatusWithBreak(obs.pre)) >>
            /\ cpu.REG_SP = (sp - 3) % 256
            /\ cpu.F_INTERRUPT = 1
            /\ (cpu.REG_PC + 1) % 65536 = 57344

\* BRK executed with S = $01: the third push wrapped to $01FF
C22_Witness ==
    /\ FlowTested("brk")
    /\ obs.pre.REG_SP = 1
    /\ obs.pre.F_CARRY = 1
    /\ cpu.REG_SP = 254
    /\ Cell(ram, 511) = StatusWithBreak(obs.pre)

\* C23: JSR at address a pushes the high byte then the low byte of a + 2 and
\* jumps to its operand; the RTS executed with S at its value just after the
\* JSR resumes at a + 3 and leaves S at its value before the JSR, stack
\* pointer wrap-around included.
C23_JsrRtsRoundTrip ==
    /\ FlowTested("jsr") =>
          LET a == hist.test.a
              sp == obs.pre.REG_SP
          IN  /\ sp = hist.test.s
              /\ Writes(obs.log) =
                     << Ev("write", 256 + sp, Page(a + 2)),
                        Ev("write", 256 + ((sp - 1) % 256), (a + 2) % 256) >>
              /\ cpu.REG_SP = (sp - 2) % 256
              /\ (cpu.REG_PC + 1) % 65536 = hist.test.b1 + 256 * hist.test.b2
    /\ obs.act = "flowStep" /\ hist.test.kind = "jsr" /\
       obs.n = hist.test.step + 1 =>
          /\ FetchedOpcode(obs.log) = 96
          /\ obs.pre.REG_SP = (hist.test.s - 2) % 256
          /\ (cpu.REG_PC + 1) % 65536 = hist.test.a + 3
          /\ cpu.REG_SP = hist.test.s

\* The RTS of a JSR executed with S = $00: the pushes went to $0100 and
\* $01FF and S is $00 again
C23_Witness ==
    /\ obs.act = "flowStep" /\ hist.test.kind = "jsr"
    /\ obs.n = hist.test.step + 1
    /\ hist.test.s = 0
    /\ obs.pre.REG_SP = 254
    /\ cpu.REG_SP = 0
    /\ hist.test.a = 49406
    /\ cpu.REG_PC = 49408

\* C24: when an NMI or IRQ is dispatched at a boundary where the next
\* instruction is at p, and the handler executes RTI with S back at its value
\* just after the dispatch and the three pushed bytes unmodified, execution
\* resumes at p with C, Z, I, D, V, N and S as they were just before the
\* dispatch.
C24_RtiRestores ==
    obs.act = "flowStep" /\ obs.rti # <<>> =>
        LET f == obs.rti[1]
        IN  /\ (cpu.REG_PC + 1) % 65536 = f.pc
            /\ cpu.REG_SP = f.c.REG_SP
            /\ cpu.F_CARRY = f.c.F_CARRY
            /\ (cpu.F_ZERO = 0) <=> (f.c.F_ZERO = 0)
            /\ cpu.F_INTERRUPT = f.c.F_INTERRUPT
            /\ cpu.F_DECIMAL = f.c.F_DECIMAL
            /\ cpu.F_OVERFLOW = f.c.F_OVERFLOW
            /\ cpu.F_SIGN = f.c.F_SIGN

\* The RTI of the IRQ handler, which had set C and D, returned to the
\* interrupted program with both clear again
C24_Witness ==
    /\ obs.act = "flowStep" /\ obs.rti # <<>>
    /\ obs.pre.F_DECIMAL = 1 /\ obs.pre.F_CARRY = 1
    /\ obs.rti[1].c.F_DECIMAL = 0 /\ obs.rti[1].c.F_CARRY = 0
    /\ obs.rti[1].bytes[3] = 32
    /\ cpu.F_DECIMAL = 0 /\ cpu.F_CARRY = 0

\* C25: JMP (ptr) reads the low byte of the target at ptr and the high byte
\* at the address with the high byte of ptr and the low byte (ptr + 1) mod
\* 256: for ptr = $xxFF the high byte comes from $xx00.
C25_JmpIndirectPageWrap ==
    FlowTested("jmp") =>
        LET ptr == hist.test.b1 + 256 * hist.test.b2
            acc == BusAccesses(obs.log)
            n == Len(acc)
        IN  /\ acc[n - 1].op = "read" /\ acc[n - 1].a = ptr
            /\ acc[n].op = "read"
            /\ acc[n].a = 256 * Page(ptr) + ((ptr + 1) % 256)
            /\ (cpu.REG_PC + 1) % 65536 = acc[n - 1].v + 256 * acc[n].v

\* JMP ($C3FF) took its high byte $C4 from $C300 and continued at $C400
C25_Witness ==
    /\ FlowTested("jmp")
    /\ hist.test.b1 = 255
    /\ cpu.REG_PC = 50175
    /\ \E i \in DOMAIN obs.log : obs.log[i] = Ev("read", 49920, 196)

\* C26: each of the eight relative branches returns 2 cycles when it is not
\* taken, 3 when it is taken to a target in the page of the instruction that
\* follows the branch, and 4 when the target is in another page.
C26_BranchCycles ==
    FlowTested("bra") =>
        LET next == hist.test.a + 2
            rel == hist.test.b1
            target == (next + (IF rel < 128 THEN rel ELSE rel - 256)) % 65536
        IN  /\ FetchedOpcode(obs.log) = hist.test.op
            /\ obs.cycles = IF ~BranchTaken(hist.test.op, obs.pre) THEN 2
                            ELSE IF Page(target) = Page(next) THEN 3 ELSE 4
            /\ (cpu.REG_PC + 1) % 65536 =
                   IF BranchTaken(hist.test.op, obs.pre) THEN target ELSE next

\* BNE at $C100 taken backwards into page $C0 returned 4 cycles
C26_Witness ==
    /\ FlowTested("bra")
    /\ hist.test.op = 208 /\ hist.test.a = 49408 /\ hist.test.b1 = 252
    /\ obs.cycles = 4
    /\ cpu.REG_PC = 49405

-----------------------------------------------------------------------------
(* Save states of the CPU (compatibility.js, toJSON / fromJSON)            *)

\* CPU.JSON_PROPERTIES, but for "mem" (the RAM, kept apart here) and for
\* REG_STATUS and F_NOTUSED_NEW, which no code reads
JSON_PROPERTIES ==
    {"cyclesToHalt", "irqRequested", "irqType", "REG_ACC", "REG_X", "REG_Y",
     "REG_SP", "REG_PC", "REG_PC_NEW", "F_CARRY", "F_DECIMAL", "F_INTERRUPT",
     "F_INTERRUPT_NEW", "F_OVERFLOW", "F_SIGN", "F_ZERO", "F_NOTUSED", "F_BRK",
     "F_BRK_NEW", "cycleCount", "dataBus"}

\* A snapshot that leaves out the data bus latch
CPU_toJSONNoBus(m) ==
    [props |-> [f \in JSON_PROPERTIES |-> IF f = "dataBus" THEN 0 ELSE m.cpu[f]],
     mem |-> m.ram]

\* CPU.toJSON(): the listed properties and a copy of the memory
CPU_toJSON(m) ==
    [props |-> [f \in JSON_PROPERTIES |-> m.cpu[f]], mem |-> m.ram]

\* CPU.fromJSON(s): the listed properties are assigned, the other fields of
\* the CPU object stay as they are
CPU_fromJSON(m, s) ==
    [m EXCEPT !.cpu = [f \in DOMAIN m.cpu |->
                          IF f \in JSON_PROPERTIES THEN s.props[f] ELSE m.cpu[f]],
              !.ram = s.mem]

\* Bounds of the save-state specification
MaxSaveCycles == 13
MaxSaveRequests == 3
MaxReplay == 2

InitSave ==
    /\ InitMachine
    /\ prg \in {ProgMaskToggle, ProgNested}
    /\ obs = [act |-> "init"]
    /\ hist = NoHist

\* cpu.step()
SaveStep ==
    /\ cpu.cycleCount < MaxSaveCycles
    /\ StepObserved(step(Mach), cpu.cyclesToHalt > 0)

\* cpu.requestIrq(type) by a device, cpu.haltCycles(1) by a DMA
SaveRequest ==
    /\ hist.calls < MaxSaveRequests
    /\ \/ \E type \in {IRQ_NORMAL, IRQ_NMI} :
             /\ Commit(requestIrq(Mach, type))
             /\ obs' = [act |-> "requestIrq", type |-> type]
       \/ /\ Commit(haltCycles(Mach, 1))
          /\ obs' = [act |-> "haltCycles", n |-> 1]
    /\ hist' = [hist EXCEPT !.calls = @ + 1]

\* state = cpu.toJSON(), between two steps.  The ghost snapshot keeps, next to
\* the object toJSON returns, the CPU and the bus contents of that moment.
SaveCapture ==
    /\ hist.snap = <<>>
    /\ Commit(Mach)
    /\ obs' = [act |-> "toJSON"]
    /\ hist' = [hist EXCEPT !.snap = <<[json |-> CPU_toJSON(Mach), cpu |-> cpu,
                                        ram |-> ram, mmc |-> mmc, pads |-> pads,
                                        used |-> FALSE]>>]

\* cpu.fromJSON(state), between two steps, the cartridge and the controllers
\* being put back to what they were at the capture
SaveRestore ==
    /\ hist.snap # <<>>
    /\ ~hist.snap[1].used
    /\ Commit([CPU_fromJSON(Mach, hist.snap[1].json) EXCEPT
                  !.mmc = hist.snap[1].mmc, !.pads = hist.snap[1].pads])
    /\ obs' = [act |-> "fromJSON", pre |-> cpu, preRam |-> ram]
    /\ hist' = [hist EXCEPT !.snap[1].used = TRUE]

NextSave == SaveStep \/ SaveRequest \/ SaveCapture \/ SaveRestore

SpecSave == InitSave /\ [][NextSave]_vars

\* k steps from machine m: the CPU and RAM they leave and the cycle count
\* each returned
RECURSIVE Replay(_, _, _)
RECURSIVE ReplayStep(_, _, _)
Replay(m, k, cycles) ==
    IF k = 0 THEN [cpu |-> m.cpu, ram |-> m.ram, cycles |-> cycles]
    ELSE ReplayStep(step([m EXCEPT !.log = <<>>]), k, cycles)
ReplayStep(r, k, cycles) == Replay(r.m, k - 1, Append(cycles, r.cycles))

\* The machine as it was when the snapshot was taken
Captured ==
    [Mach EXCEPT !.cpu = hist.snap[1].cpu, !.ram = hist.snap[1].ram,
                 !.mmc = hist.snap[1].mmc, !.pads = hist.snap[1].pads]

\* C27: after toJSON at an instruction boundary, running on, and fromJSON,
\* k steps with the same bus contents yield the same registers, flags, RAM,
\* pending-interrupt latch, stall counter, cycle counter and data-bus latch
\* and the same per-step cycle counts as k steps from the captured state.
C27_SnapshotRoundTrip ==
    obs.act = "fromJSON" =>
        \A k \in 0 .. MaxReplay :
            Replay(Mach, k, <<>>) = Replay(Captured, k, <<>>)

\* A snapshot restored after the CPU had run on: registers, RAM, the data
\* bus latch and the pending interrupt all differed from the captured ones
C27_Witness ==
    /\ obs.act = "fromJSON"
    /\ obs.pre.REG_PC # cpu.REG_PC
    /\ obs.pre.dataBus # cpu.dataBus
    /\ obs.pre.irqRequested # cpu.irqRequested
    /\ obs.pre.cycleCount > cpu.cycleCount
    /\ obs.preRam # ram
    /\ cpu.cycleCount > 0

-----------------------------------------------------------------------------
(* Cartridges: PRG-RAM, soft reset and save states of the mappers          *)

\* The cartridge writes made: PRG-RAM data or block select ($6000, $7000,
\* $7200, $7400), bank select and bank data ($8000, $8001), RAM control
\* ($A001, $BFFF), IRQ latch, reload and enable ($C000, $C001, $E001)
CartWrites ==
    {<<24576, 1>>, <<24576, 16>>, <<28672, 1>>, <<28672, 16>>, <<29184, 1>>,
     <<32768, 70>>, <<32769, 1>>,
     <<40961, 16>>, <<40961, 32>>, <<40961, 128>>, <<49151, 192>>,
     <<49152, 1>>, <<49153, 1>>, <<57345, 1>>, <<29696, 2>>}
CartReads == {24576, 28672, 29184}

\* Bound of the cartridge specification
MaxCartCalls == 5

InitCart ==
    /\ cpu = CPU_reset
    /\ ram = <<>>
    /\ mmc \in {Mapper000_reset, Mapper002_reset, Mapper004_loadROM,
                Mapper006_loadROM, Mapper025_reset, Mapper047_loadROM}
    /\ pads = [i \in 1 .. 2 |-> NewController]
    /\ prg = ProgIdle
    /\ obs = [act |-> "init"]
    /\ hist = NoHist

\* The cartridge stores a CPU write to addr: its RAM is there, enabled and
\* not write-protected
WriteAccepted(mc, addr) ==
    CASE mc.mapper \in {0, 25} -> addr >= 24576 /\ addr < 32768
      [] mc.mapper = 4 ->
           addr >= 24576 /\ addr < 32768 /\ mc.prgRamEnabled /\ ~mc.prgRamWriteProtect
      [] mc.mapper = 6 ->
           addr >= 28672 /\ addr < 32768 /\
           Bit(mc.ramControl, IF addr % 1024 < 512 THEN 4 ELSE 5) = 1
      [] OTHER -> FALSE

\* The call that came before, as far as the next one's check needs it
LastCall == IF obs.act = "cartWrite" THEN obs ELSE [act |-> obs.act]

\* cpu.cpuWrite(addr, val)
CartWrite ==
    \E w \in CartWrites :
        /\ hist.calls < MaxCartCalls
        /\ mmc.mapper = 25 => w[1] < 32768
        /\ Commit(cpuWrite(Mach, w[1], w[2]))
        /\ obs' = [act |-> "cartWrite", addr |-> w[1], val |-> w[2],
                   accepted |-> WriteAccepted(mmc, w[1]), preMmc |-> mmc]
        /\ hist' = [hist EXCEPT !.calls = @ + 1]

\* The read r of addr observed
CartReadTo(r, addr) ==
    /\ Commit(r.m)
    /\ obs' = [act |-> "cartRead", addr |-> addr, v |-> r.v, last |-> LastCall]
    /\ hist' = [hist EXCEPT !.calls = @ + 1]

\* cpu.cpuRead(addr)
CartRead ==
    \E addr \in CartReads :
        /\ hist.calls < MaxCartCalls
        /\ CartReadTo(cpuRead(Mach, addr), addr)

\* mmap.clockScanline(), called by the PPU on a rising edge of A12
CartA12 ==
    /\ hist.calls < MaxCartCalls
    /\ mmc.mapper \in {4, 6, 47}
    /\ Commit(clockScanline(Mach))
    /\ obs' = [act |-> "a12"]
    /\ hist' = [hist EXCEPT !.calls = @ + 1]

\* mmap.reset(), the soft reset of the cartridge
CartReset ==
    /\ hist.calls < MaxCartCalls
    /\ Commit([Mach EXCEPT !.mmc = CASE mmc.mapper = 0 -> Mapper000_resetOn(mmc)
                                     [] mmc.mapper = 2 -> Mapper002_resetOn(mmc)
                                     [] mmc.mapper = 25 -> Mapper025_resetOn(Mach).mmc
                                     [] mmc.mapper = 47 -> Mapper047_reset(mmc)
                                     [] mmc.mapper = 6 -> Mapper006_reset(mmc)
                                     [] OTHER -> Mapper004_reset(mmc)])
    /\ obs' = [act |-> "cartReset", preMmc |-> mmc]
    /\ hist' = [hist EXCEPT !.calls = @ + 1]

\* this.nes.mmap.toJSON(): the method of the cartridge's class.  Mapper047
\* inherits that of Mapper004; Mapper025 defines none, it has that of the
\* mapper base class.
mmap_toJSON(mc) ==
    CASE mc.mapper = 0 -> Mapper000_toJSON(mc)
      [] mc.mapper = 2 -> Mapper002_toJSON(mc)
      [] mc.mapper = 6 -> Mapper006_toJSON(mc)
      [] OTHER -> Mapper004_toJSON(mc)

\* this.nes.mmap.fromJSON(state)
mmap_fromJSON(mc, state) ==
    CASE mc.mapper = 0 -> Mapper000_fromJSON(mc, state)
      [] mc.mapper = 2 -> Mapper002_fromJSON(mc, state)
      [] mc.mapper = 6 -> Mapper006_fromJSON(mc, state)
      [] OTHER -> Mapper004_fromJSON(mc, state)

\* state = mmap.toJSON().  The ghost snapshot keeps, next to the object
\* toJSON returns, the mapper of that moment.
CartSave ==
    /\ hist.calls < MaxCartCalls
    /\ mmc.mapper \in {0, 2, 4, 6, 47}
    /\ hist.snap = <<>>
    /\ Commit(Mach)
    /\ obs' = [act |-> "cartToJSON"]
    /\ hist' = [hist EXCEPT !.calls = @ + 1,
                            !.snap = <<[json |-> mmap_toJSON(mmc), mmc |-> mmc]>>]

\* mmap.fromJSON(state)
CartRestore ==
    /\ hist.calls < MaxCartCalls
    /\ hist.snap # <<>>
    /\ Commit([Mach EXCEPT !.mmc = mmap_fromJSON(mmc, hist.snap[1].json)])
    /\ obs' = [act |-> "cartFromJSON", preMmc |-> mmc]
    /\ hist' = [hist EXCEPT !.calls = @ + 1]

NextCart ==
    CartWrite \/ CartRead \/ CartA12 \/ CartReset \/ CartSave \/ CartRestore

SpecCart == InitCart /\ [][NextCart]_vars

-----------------------------------------------------------------------------
(* Claims on the cartridges                                                *)

\* C28: for Mapper 47, a snapshot taken with toJSON and restored with
\* fromJSON into a mapper whose state has changed since reproduces the PRG
\* and CHR bank mapping of the moment of the snapshot, the selected 128 KiB
\* block included.
C28_Mapper47SnapshotKeepsBlock ==
    obs.act = "cartFromJSON" /\ mmc.mapper = 47 =>
        /\ mmc.prgOffsets = hist.snap[1].mmc.prgOffsets
        /\ mmc.chrOffsets = hist.snap[1].mmc.chrOffsets
        /\ mmc.block = hist.snap[1].mmc.block

\* C29: on NROM, MMC3, MMC6 and VRC4, a CPU write of byte b to a PRG-RAM
\* address at which the write is accepted (RAM present, enabled, not
\* write-protected), followed immediately by a CPU read of that address,
\* returns b.
C29_PrgRamReadBack ==
    /\ obs.act = "cartRead"
    /\ obs.last.act = "cartWrite"
    /\ obs.last.addr = obs.addr
    /\ obs.last.accepted
    => obs.v = obs.last.val

\* C30: Mapper004.reset() leaves the bank registers, the bank-select index,
\* the PRG and CHR mode bits, the IRQ latch, counter, reload and enable
\* flags, the PRG-RAM contents and the RAM enable and protect flags
\* unchanged, and the PRG and CHR slot mapping after it equals the mapping
\* before.
C30_SoftResetKeepsMmc3 ==
    obs.act = "cartReset" /\ mmc.mapper = 4 =>
        /\ \A f \in Mapper004_saved : mmc[f] = obs.preMmc[f]
        /\ mmc.prgOffsets = obs.preMmc.prgOffsets
        /\ mmc.chrOffsets = obs.preMmc.chrOffsets

\* A soft reset of an MMC3 with PRG mode 1 and bank 1 in register 6
C30_Witness ==
    /\ obs.act = "cartReset" /\ mmc.mapper = 4
    /\ mmc.prgMode = 1 /\ mmc.reg[6] = 1 /\ mmc.bankSelect = 6
    /\ mmc.prgOffsets[2] = 8192
    /\ mmc.prgOffsets[3] = (PrgBankCount8k - 1) * 8192

\* The same for the scanline counter: a soft reset with the latch written,
\* the counter loaded from it and the IRQ enabled
C30_WitnessIrq ==
    /\ obs.act = "cartReset" /\ mmc.mapper = 4
    /\ mmc.irqLatch = 1 /\ mmc.irqCounter = 1 /\ mmc.irqEnabled

-----------------------------------------------------------------------------
(* The bank registers of the MMC3 family on cartridges of several sizes    *)

\* The cartridges: PRG-ROM sizes in 8 KiB banks and CHR sizes in 1 KiB
\* banks, powers of two and others
BankPrgCounts == {2, 3, 4, 6}
BankChrCounts == {1, 3, 8}

\* The mapper object mc built on a cartridge of k PRG and c CHR banks
onCartridge(mc, k, c) ==
    [f \in DOMAIN mc \cup {"prgBanks", "chrBanks"} |->
        CASE f = "prgBanks" -> k
          [] f = "chrBanks" -> c
          [] OTHER -> mc[f]]

\* mmap.reset(), on the class of the mapper object
mmap_reset(mc) ==
    CASE mc.mapper = 6 -> Mapper006_reset(mc)
      [] mc.mapper = 47 -> Mapper047_reset(mc)
      [] mc.mapper = 206 -> Mapper206_reset(mc)
      [] OTHER -> Mapper004_reset(mc)

\* loadROM() of Mapper004, Mapper006 or Mapper206 (by mapper number n) on a
\* cartridge of k PRG and c CHR banks: the power-on fields, updateBanks(),
\* reset()
loadROM(n, k, c) ==
    mmap_reset(this_updateBanks(onCartridge(
        [(IF n = 6 THEN Mapper006_loadROM ELSE Mapper004_loadROM)
            EXCEPT !.mapper = n], k, c)))

\* The CPU writes made: bank select with and without mode bits, bank data,
\* mirroring, RAM protect, IRQ latch, reload, disable and enable, PRG-RAM
BankWrites ==
    {<<32768, 0>>, <<32768, 1>>, <<32768, 2>>, <<32768, 6>>, <<32768, 7>>,
     <<32768, 70>>, <<32768, 130>>, <<32768, 199>>,
     <<32769, 1>>, <<32769, 3>>, <<32769, 5>>, <<32769, 255>>,
     <<40958, 134>>, <<40959, 2>>,
     <<40960, 1>>, <<40961, 128>>, <<49152, 1>>, <<49153, 0>>,
     <<57344, 0>>, <<57345, 0>>, <<24576, 7>>}
BankReads == {24576, 28672}

\* Bound of the bank specification
MaxBankCalls == 3

InitBank ==
    /\ cpu = CPU_reset
    /\ ram = <<>>
    /\ mmc \in {loadROM(n, k, c) :
                   n \in {4, 6, 206}, k \in BankPrgCounts, c \in BankChrCounts}
    /\ pads = [i \in 1 .. 2 |-> NewController]
    /\ prg = ProgIdle
    /\ obs = [act |-> "init"]
    /\ hist = NoHist

\* The call that left machine r observed
BankCallTo(r, act, addr, val) ==
    /\ Commit(r)
    /\ obs' = [act |-> act, addr |-> addr, val |-> val, pre |-> mmc,
               log |-> r.log, cpuPre |-> cpu]
    /\ hist' = [hist EXCEPT !.calls = @ + 1]

\* mmap.cpuWrite(addr, val)
BankWrite ==
    \E w \in BankWrites :
        /\ hist.calls < MaxBankCalls
        /\ BankCallTo(mmap_cpuWrite(Mach, w[1], w[2]), "write", w[1], w[2])

\* mmap.cpuRead(addr)
BankRead ==
    \E addr \in BankReads :
        /\ hist.calls < MaxBankCalls
        /\ BankCallTo(Mach, "read", addr, mmap_cpuRead(Mach, addr))

\* mmap.clockScanline()
BankA12 ==
    /\ hist.calls < MaxBankCalls
    /\ BankCallTo(clockScanline(Mach), "a12", 0, 0)

\* mmap.reset()
BankReset ==
    /\ hist.calls < MaxBankCalls
    /\ BankCallTo([Mach EXCEPT !.mmc = mmap_reset(mmc)], "reset", 0, 0)

NextBank == BankWrite \/ BankRead \/ BankA12 \/ BankReset

SpecBank == InitBank /\ [][NextBank]_vars

-----------------------------------------------------------------------------
(* Claims on the bank registers                                            *)

\* Bank number n under the mask of a memory of count banks
Masked(n, count) == BitAnd(n, count - 1)

\* The PRG bank of the 8 KiB slot at $8000 + slot * $2000 and the CHR bank of
\* the 1 KiB slot at PPU address slot * $400
PrgBank(slot) == mmc.prgOffsets[slot] \div 8192
ChrBank(slot) == mmc.chrOffsets[slot] \div 1024

\* The eight 1 KiB CHR banks of the two 2 KiB registers (low bit ignored)
\* followed by the four 1 KiB registers
ChrRegisterBanks ==
    LET c == get1kChrBankCount(mmc)
        r == mmc.reg
    IN  <<Masked(r[0] - (r[0] % 2), c), Masked(r[0] - (r[0] % 2) + 1, c),
          Masked(r[1] - (r[1] % 2), c), Masked(r[1] - (r[1] % 2) + 1, c),
          Masked(r[2], c), Masked(r[3], c), Masked(r[4], c), Masked(r[5], c)>>

\* C31: on the MMC3, after any sequence of register writes, $E000-$FFFF maps
\* to the last 8 KiB PRG bank and $A000-$BFFF to bank R7; with PRG mode 0
\* $8000-$9FFF maps to R6 and $C000-$DFFF to the second-last bank, with PRG
\* mode 1 the two are exchanged; with CHR mode 0 the two 2 KiB banks R0, R1
\* lie at PPU $0000-$0FFF and the four 1 KiB banks R2..R5 at $1000-$1FFF,
\* with CHR mode 1 the halves are exchanged (registers under the bank-count
\* mask).
C31_Mmc3BankLayout ==
    mmc.mapper = 4 =>
        LET k == get8kPrgBankCount(mmc)
            swap == IF mmc.prgMode = 0 THEN 0 ELSE 2
            half == IF mmc.chrMode = 0 THEN 0 ELSE 4
        IN  /\ mmc.prgOffsets[3] = (k - 1) * 8192
            /\ mmc.prgOffsets[1] = Masked(mmc.reg[7], k) * 8192
            /\ mmc.prgOffsets[swap] = Masked(mmc.reg[6], k) * 8192
            /\ mmc.prgOffsets[2 - swap] = (k - 2) * 8192
            /\ \A i \in 0 .. 3 :
                  /\ ChrBank((i + half) % 8) = ChrRegisterBanks[i + 1]
                  /\ ChrBank((i + 4 + half) % 8) = ChrRegisterBanks[i + 5]
            /\ \A i \in 0 .. 7 : mmc.chrOffsets[i] % 1024 = 0

\* An MMC3 on the largest cartridge in PRG mode 1 and CHR mode 1 with R7 = 5
\* selected last: $8000 holds the second-last bank, $A000 bank 5
C31_Witness ==
    /\ mmc.mapper = 4 /\ obs.act = "write"
    /\ mmc.prgBanks = 6 /\ mmc.chrBanks = 8
    /\ mmc.prgMode = 1 /\ mmc.chrMode = 1
    /\ mmc.reg[7] = 5
    /\ PrgBank(0) = 4 /\ PrgBank(1) = 5 /\ PrgBank(3) = 5

\* C32: on MMC3, MMC6 and DxROM with k >= 2 PRG banks of 8 KiB and m >= 1
\* CHR banks of 1 KiB (powers of two or not), after any sequence of register
\* writes every PRG slot offset is below k * 8 KiB and every CHR slot offset
\* below m * 1 KiB, so that a read through a slot stays inside the array.
C32_OffsetsInsideImage ==
    mmc.mapper \in {4, 6, 206} =>
        /\ \A i \in 0 .. 3 :
              /\ mmc.prgOffsets[i] >= 0
              /\ mmc.prgOffsets[i] + 8191 < get8kPrgBankCount(mmc) * 8192
        /\ \A i \in 0 .. 7 :
              /\ mmc.chrOffsets[i] >= 0
              /\ mmc.chrOffsets[i] + 1023 < get1kChrBankCount(mmc) * 1024

\* A DxROM on a cartridge of 6 PRG and 3 CHR banks after bank data $FF went
\* to R6 and another register: R6 holds $3F and $8000 is mapped to bank 5
C32_Witness ==
    /\ mmc.mapper = 206 /\ obs.act = "write" /\ hist.calls = 3
    /\ mmc.prgBanks = 6 /\ mmc.chrBanks = 3
    /\ mmc.reg[6] = 63 /\ PrgBank(0) = 5

\* The calls of kind op the last mapper call made on the CPU or the PPU
Made(op) == {i \in 1 .. Len(obs.log) : obs.log[i].op = op}

\* C36: on Mapper 206, after loading and after any sequence of CPU writes,
\* resets and A12 clocks, the PRG and CHR mode are 0; no call requests a CPU
\* IRQ or sets the mirroring; no write to $6000-$7FFF is stored and a read
\* there returns no RAM byte; a write outside $8000-$9FFF changes no mapper
\* state.
C36_DxRomSubset ==
    mmc.mapper = 206 =>
        /\ mmc.prgMode = 0 /\ mmc.chrMode = 0
        /\ mmc.prgRam = <<>>
        /\ obs.act # "init" =>
              /\ Made("requestIrq") = {} /\ Made("setMirroring") = {}
              /\ cpu.irqRequested = obs.cpuPre.irqRequested
              /\ cpu.irqType = obs.cpuPre.irqType
        /\ obs.act = "read" => obs.val = (obs.addr \div 256) % 256
        /\ obs.act = "write" /\ (obs.addr < 32768 \/ obs.addr > 40959) =>
              mmc = obs.pre

\* A DxROM after a bank select write with both mode bits set, a write to the
\* IRQ enable register and an A12 clock
C36_Witness ==
    /\ mmc.mapper = 206 /\ obs.act = "a12" /\ hist.calls = 3
    /\ mmc.bankSelect = 7
    /\ obs.pre = mmc

-----------------------------------------------------------------------------
(* Claims on the MMC6 RAM                                                  *)

\* Bit of the control byte that enables writes (4, 5) or reads (6, 7) of the
\* 512-byte half addr lies in
HalfBit(addr, lower) == IF addr % 1024 < 512 THEN lower ELSE lower + 1

\* C37: the MMC6 RAM is 1 KiB mirrored through $7000-$7FFF; a write is
\* stored if and only if the write-enable bit of the addressed half is set
\* in the control byte (bit 4 lower, bit 5 upper) and a read returns the RAM
\* byte if and only if the half's read-enable bit is set (bit 6, bit 7);
\* accesses to $6000-$6FFF never reach the RAM; a write to an odd address in
\* $A000-$BFFF sets the control byte and leaves the MMC3 RAM enable and
\* protect flags; reset restores the control byte to $F0.
C37_Mmc6Ram ==
    mmc.mapper = 6 =>
        /\ obs.act = "cartWrite" /\ obs.addr >= 28672 /\ obs.addr < 32768 =>
              mmc = [obs.preMmc EXCEPT !.prgRam =
                        IF Bit(obs.preMmc.ramControl, HalfBit(obs.addr, 4)) = 1
                        THEN Store(@, obs.addr % 1024, obs.val) ELSE @]
        /\ obs.act = "cartRead" /\ obs.addr >= 28672 /\ obs.addr < 32768 =>
              obs.v = IF Bit(mmc.ramControl, HalfBit(obs.addr, 6)) = 1
                      THEN Cell(mmc.prgRam, obs.addr % 1024)
                      ELSE (obs.addr \div 256) % 256
        /\ obs.act = "cartWrite" /\ obs.addr >= 24576 /\ obs.addr < 28672 =>
              mmc = obs.preMmc
        /\ obs.act = "cartRead" /\ obs.addr >= 24576 /\ obs.addr < 28672 =>
              obs.v = (obs.addr \div 256) % 256
        /\ obs.act = "cartWrite" /\ obs.addr >= 40960 /\ obs.addr < 49152
                                 /\ obs.addr % 2 = 1 =>
              mmc = [obs.preMmc EXCEPT !.ramControl = obs.val]
        /\ obs.act = "cartReset" => mmc.ramControl = 240
        /\ DOMAIN mmc.prgRam \subseteq 0 .. 1023

\* An MMC6 read of $7000 that returns the byte written through the mirror at
\* $7400 just before
C37_Witness ==
    /\ mmc.mapper = 6 /\ obs.act = "cartRead" /\ obs.addr = 28672
    /\ obs.last.act = "cartWrite" /\ obs.last.addr = 29696
    /\ obs.v = 2

\* An MMC6 write to the lower half refused with only the upper half
\* write-enabled, and a reset after the control byte was changed
C37_WitnessRefused ==
    /\ mmc.mapper = 6 /\ obs.act = "cartWrite" /\ obs.addr = 28672
    /\ mmc.ramControl = 32 /\ mmc.prgRam = <<>>
C37_WitnessReset ==
    /\ mmc.mapper = 6 /\ obs.act = "cartReset" /\ obs.preMmc.ramControl = 192

\* An MMC6 snapshot restored after the control byte was changed: the byte of
\* the snapshot is back
C37_WitnessRestore ==
    /\ mmc.mapper = 6 /\ obs.act = "cartFromJSON"
    /\ obs.preMmc.ramControl = 16 /\ mmc.ramControl = 240
    /\ hist.snap[1].json.ramControl = 240

-----------------------------------------------------------------------------
(* The IRQ unit of the VRC4                                                *)

\* The CPU writes made: IRQ latch nibbles, IRQ control (enable in scanline
\* and in cycle mode, disable, enable-after-acknowledge), acknowledge, a PRG
\* bank and the mirroring
VrcWrites ==
    {<<61440, 15>>, <<61440, 14>>, <<61441, 15>>,
     <<61442, 2>>, <<61442, 6>>, <<61442, 0>>, <<61442, 1>>, <<61443, 0>>,
     <<32768, 1>>, <<36864, 1>>}

\* The cycle counts handed to cpuClock
VrcCycles == {1, 2, 113, 114, 341}

\* Bounds of the VRC4 specification: CPU cycles clocked since the IRQ was
\* enabled, calls made, cycles the CPU has run
MaxVrcCycles == 460
MaxVrcCalls == 5
MaxVrcStepCycles == 10

\* The ghost of the IRQ unit: whether it was enabled through $F002 with no
\* register write since, the CPU cycles clocked and the IRQs requested since
\* then, the latch of that moment
VrcGhost(valid, latch) == [valid |-> valid, n |-> 0, irqs |-> 0, latch |-> latch]

InitVrc ==
    /\ cpu = CPU_reset
    /\ ram = <<>>
    /\ mmc \in {[Mapper025_reset EXCEPT !.pinA0 = pins[1], !.pinA1 = pins[2]] :
                   pins \in {<<1, 2>>, <<2, 1>>}}
    /\ pads = [i \in 1 .. 2 |-> NewController]
    /\ prg = ProgIdle
    /\ obs = [act |-> "init"]
    /\ hist = [NoHist EXCEPT !.test = VrcGhost(FALSE, 0)]

\* The requestIrq calls in a log
Requests(log) == Cardinality({i \in 1 .. Len(log) : log[i].op = "requestIrq"})

\* The call that left machine r observed
VrcCallTo(r, act, arg, ghost) ==
    /\ Commit(r)
    /\ obs' = [act |-> act, arg |-> arg, pre |-> mmc, log |-> r.log]
    /\ hist' = [hist EXCEPT !.calls = @ + 1, !.test = ghost]

\* mmap.cpuWrite(addr, val)
VrcWrite ==
    \E w \in VrcWrites :
        /\ hist.calls < MaxVrcCalls
        /\ VrcCallTo(mmap_cpuWrite(Mach, w[1], w[2]), "write", w,
                     VrcGhost(getRegisterAddress(mmc, w[1]) = 61442
                                 /\ Bit(w[2], 1) = 1,
                              mmc.irqLatch))

\* The cpuClock call that left machine r observed
VrcClockTo(r, cycles) ==
    VrcCallTo(r, "clock", cycles,
              [hist.test EXCEPT !.n = @ + cycles, !.irqs = @ + Requests(r.log)])

\* mmap.cpuClock(cycles)
VrcClock ==
    \E cycles \in VrcCycles :
        /\ hist.calls < MaxVrcCalls
        /\ hist.test.n + cycles <= MaxVrcCycles
        /\ VrcClockTo(cpuClock(Mach, cycles), cycles)

\* mmap.reset()
VrcReset ==
    /\ hist.calls < MaxVrcCalls
    /\ VrcCallTo(Mapper025_resetOn(Mach), "reset", 0, VrcGhost(FALSE, 0))

\* cpu.step(): the first one takes the reset that is pending since power-on,
\* and only after it does a request of the mapper reach the CPU's latch
VrcStep ==
    /\ hist.calls < MaxVrcCalls
    /\ cpu.cycleCount < MaxVrcStepCycles
    /\ VrcCallTo(step(Mach).m, "step", 0, hist.test)

NextVrc == VrcWrite \/ VrcClock \/ VrcReset \/ VrcStep

SpecVrc == InitVrc /\ [][NextVrc]_vars

\* The counter clocks one cpuClock(cycles) makes from mapper state pre: every
\* CPU cycle in cycle mode, every time the prescaler runs out in scanline mode
IrqClocksOf(pre, cycles) ==
    IF pre.irqMode # 0 THEN cycles
    ELSE IF pre.prescaler - (3 * cycles) > 0 THEN 0
    ELSE ((3 * cycles) - pre.prescaler) \div 341 + 1

\* Counter c after k clocks with the latch at l, and the IRQs requested on
\* the way: c counts up to $FF, the clock after $FF reloads l and requests
AfterClocks(c, l, k) ==
    IF k <= 255 - c THEN [counter |-> c + k, irqs |-> 0]
    ELSE [counter |-> l + ((k - (256 - c)) % (256 - l)),
          irqs |-> 1 + ((k - (256 - c)) \div (256 - l))]

\* C33: the VRC4 IRQ counter and latch are always in 0..255; a cpuClock with
\* the IRQ enabled clocks the counter, each clock incrementing it unless it
\* holds $FF, when it is reloaded from the latch and one IRQ is requested;
\* the mapper requests an IRQ in no write and no reset; with the IRQ
\* disabled cpuClock changes neither the counter nor the prescaler
C33_VrcIrqCounter ==
    /\ mmc.irqCounter \in 0 .. 255
    /\ mmc.irqLatch \in 0 .. 255
    /\ obs.act \in {"write", "reset", "step"} => Requests(obs.log) = 0
    /\ obs.act = "step" => mmc = obs.pre
    /\ obs.act = "clock" /\ ~obs.pre.irqEnabled =>
          /\ mmc = obs.pre
          /\ Requests(obs.log) = 0
    /\ obs.act = "clock" /\ obs.pre.irqEnabled =>
          LET after == AfterClocks(obs.pre.irqCounter, obs.pre.irqLatch,
                                   IrqClocksOf(obs.pre, obs.arg))
          IN  /\ mmc.irqCounter = after.counter
              /\ Requests(obs.log) = after.irqs
              /\ mmc.irqLatch = obs.pre.irqLatch

\* A cpuClock that found the counter at $FF, reloaded it from the latch 254
\* and requested the IRQ
C33_Witness ==
    /\ obs.act = "clock" /\ obs.pre.irqEnabled
    /\ obs.pre.irqCounter = 255 /\ obs.pre.irqLatch = 254
    /\ mmc.irqCounter = 254 /\ Requests(obs.log) = 1

\* The request reached the CPU's latch, the reset taken by a step before; and
\* a request made while the reset of power-on was still pending
C33_WitnessLatched ==
    /\ obs.act = "clock" /\ Requests(obs.log) = 1
    /\ cpu.irqRequested /\ cpu.irqType = IRQ_NORMAL
C33_WitnessResetPending ==
    /\ obs.act = "clock" /\ Requests(obs.log) = 1
    /\ cpu.irqRequested /\ cpu.irqType = IRQ_RESET /\ cpu.cycleCount = 0

\* A cpuClock made with the IRQ disabled after the counter had moved
C33_WitnessDisabled ==
    /\ obs.act = "clock" /\ ~obs.pre.irqEnabled /\ obs.pre.irqCounter > 0

\* The split of a cpuClock: a cycles then b cycles leave the mapper, the CPU
\* and the number of IRQ requests as a + b cycles at once do
SplitEqual(a, b) ==
    LET two == cpuClock(cpuClock(Mach, a), b)
        one == cpuClock(Mach, a + b)
    IN  /\ two.mmc = one.mmc
        /\ two.cpu = one.cpu
        /\ Requests(two.log) = Requests(one.log)

\* C34: once the IRQ was enabled through $F002 and no register was written
\* since, the counter has been clocked floor(3N/341) times after N CPU
\* cycles in scanline mode and N times in cycle mode, however the cycles
\* were split over cpuClock calls; the scanline prescaler is in 1..341
\* after every call; cpuClock(a) then cpuClock(b) equals cpuClock(a + b)
C34_VrcClockSplit ==
    hist.test.valid =>
        LET n == hist.test.n
            clocks == IF mmc.irqMode = 0 THEN (3 * n) \div 341 ELSE n
            after == AfterClocks(hist.test.latch, hist.test.latch, clocks)
        IN  /\ mmc.irqEnabled
            /\ mmc.irqCounter = after.counter
            /\ hist.test.irqs = after.irqs
            /\ mmc.prescaler \in 1 .. 341
            /\ mmc.irqMode = 0 => mmc.prescaler = 341 - ((3 * n) % 341)
            /\ \A a \in VrcCycles, b \in VrcCycles : SplitEqual(a, b)

\* Scanline mode, enabled through $F002 with the latch at $FF: the cycles
\* came in two calls at least and the counter requested an IRQ
C34_Witness ==
    /\ hist.test.valid /\ obs.act = "clock" /\ mmc.irqMode = 0
    /\ hist.test.n > obs.arg /\ hist.test.irqs >= 1
    /\ mmc.prescaler < 341

\* Cycle mode: more than 256 clocks in two calls, the counter wrapped
C34_WitnessCycle ==
    /\ hist.test.valid /\ obs.act = "clock" /\ mmc.irqMode # 0
    /\ hist.test.n > 256 /\ hist.test.n > obs.arg /\ hist.test.latch < 254
    /\ hist.test.irqs = 1

-----------------------------------------------------------------------------
(* The controller ports read by a program                                  *)

\* main: LDA #1; STA $4016; LDA $4016; LDA $4016 (strobe high);
\*       LDA #0; STA $4016; LDA $4016; LDA $4017; NOP; LSR $4016;
\*       LDA $4016 (x 9); JMP $C000
ProgPort ==
    At(49152, <<169, 1, 141, 22, 64, 173, 22, 64, 173, 22, 64,
                169, 0, 141, 22, 64, 173, 22, 64, 173, 23, 64, 234,
                78, 22, 64>> \o NineReads \o <<76, 0, 192>>) @@ Vectors

\* Bound of the port specification: one pass of the loop and the start of
\* the next
MaxPortCycles == 90

InitPort ==
    /\ InitMachine
    /\ prg = ProgPort
    /\ obs = [act |-> "init"]
    /\ hist = NoHist

\* The machine m an instruction left, observed with the controllers it found
PortStepTo(m) ==
    /\ Commit(m)
    /\ obs' = [act |-> "portStep", before |-> pads, log |-> m.log]
    /\ UNCHANGED hist

\* cpu.step() of the port program
PortStep ==
    /\ cpu.cycleCount < MaxPortCycles
    /\ PortStepTo(step(Mach).m)

NextPort == PortStep \/ PadButtonDown \/ PadButtonUp

SpecPort == InitPort /\ [][NextPort]_vars

\* The reads of address a in a log
ReadsOf(log, a) ==
    Cardinality({i \in 1 .. Len(log) : log[i].op = "read" /\ log[i].a = a})

\* Controller c after the writes to $4016 of a log from entry i on
RECURSIVE StrobesOf(_, _, _)
StrobesOf(log, i, c) ==
    IF i > Len(log) THEN c
    ELSE StrobesOf(log, i + 1,
                   IF log[i].op = "write" /\ log[i].a = 16406
                   THEN Controller_strobe(c, log[i].v) ELSE c)

\* Controller c after an instruction with the accesses of log: strobed by
\* its writes to $4016, then clocked once if it read the port at address a
AfterInstruction(log, c, a) ==
    IF ReadsOf(log, a) > 0
    THEN Controller_clock(StrobesOf(log, 1, c))
    ELSE StrobesOf(log, 1, c)

\* Two reads of $4016 and the end of the instruction, made from the present
\* state: the reads return the same byte and change no controller, the end
\* clocks controller 1 once and controller 2 not at all; with the strobe bit
\* at 1 the reads return the current A bit and the position stays
DoubleReadSame ==
    LET r1 == cpuRead(Mach, 16406)
        r2 == cpuRead(r1.m, 16406)
        end == stepControllers(r2.m)
    IN  /\ r1.m.pads = pads /\ r2.m.pads = pads
        /\ r2.v = r1.v
        /\ end.pads = [pads EXCEPT ![1] = Controller_clock(@)]
        /\ end.pads[1].shiftRegister =
              IF pads[1].strobeByte = 0 /\ pads[1].shiftRegister < 8
              THEN pads[1].shiftRegister + 1 ELSE pads[1].shiftRegister
        /\ ~end.cpu.controller1Read
        /\ pads[1].strobeByte = 1 =>
              /\ r1.v % 2 = pads[1].currentState % 2
              /\ end.pads = pads

\* C35: the serial position of a controller advances only through clock():
\* reads change no controller state; after each instruction every controller
\* is as its strobe writes left it, clocked once if the instruction read its
\* port and not at all otherwise, the read marks cleared; a button change
\* leaves the position alone; two reads of $4016 inside one
\* instruction return the same bit, and with the strobe bit at 1 a read
\* returns the current A bit and the position does not move
C35_ClockOncePerInstruction ==
    /\ obs.act = "portStep" =>
          /\ pads[1] = AfterInstruction(obs.log, obs.before[1], 16406)
          /\ pads[2] = AfterInstruction(obs.log, obs.before[2], 16407)
          /\ ~cpu.controller1Read /\ ~cpu.controller2Read
    /\ obs.act \in {"buttonDown", "buttonUp"} =>
          pads[1].shiftRegister = obs.pre.shiftRegister
    /\ DoubleReadSame

\* An instruction that read $4016 with the strobe low moved controller 1
\* from position 2 to 3 and left controller 2 alone
C35_Witness ==
    /\ obs.act = "portStep" /\ ReadsOf(obs.log, 16406) = 1
    /\ obs.before[1].shiftRegister = 2 /\ pads[1].shiftRegister = 3
    /\ obs.before[1].strobedState = 17
    /\ pads[2] = obs.before[2]

\* A read of $4016 with the strobe high returned the A button that was
\* pressed after the last latch; the position stayed
C35_WitnessHigh ==
    /\ obs.act = "portStep" /\ ReadsOf(obs.log, 16406) = 1
    /\ pads[1].strobeByte = 1 /\ pads[1].strobedState % 2 = 0
    /\ cpu.REG_ACC = 65 /\ pads[1] = obs.before[1]

\* A read of $4016 at position 8, and a read of $4017 that clocked
\* controller 2 alone
C35_WitnessFull ==
    /\ obs.act = "portStep" /\ ReadsOf(obs.log, 16406) = 1
    /\ obs.before[1].shiftRegister = 8 /\ pads[1].shiftRegister = 8
C35_WitnessSecond ==
    /\ obs.act = "portStep" /\ ReadsOf(obs.log, 16407) = 1
    /\ pads[2].shiftRegister = obs.before[2].shiftRegister + 1
    /\ pads[1] = obs.before[1]

-----------------------------------------------------------------------------
(* The audio of the MMC5 (mapper005-audio.js)                              *)

\* LENGTH_LOOKUP, entry i at index i + 1
LENGTH_LOOKUP ==
    <<10, 254, 20, 2, 40, 4, 80, 6, 160, 8, 60, 10, 14, 12, 26, 14,
      12, 16, 24, 18, 48, 20, 96, 22, 192, 24, 72, 26, 16, 28, 32, 30>>

\* DUTY_LOOKUP, entry i at index i + 1
DUTY_LOOKUP ==
    <<0, 1, 0, 0, 0, 0, 0, 0,   0, 1, 1, 0, 0, 0, 0, 0,
      0, 1, 1, 1, 1, 0, 0, 0,   1, 0, 0, 1, 1, 1, 1, 1>>

\* frameCounter is a JavaScript number, an IEEE 754 double. It starts at 0 and
\* changes by adding a whole number of cycles and by subtracting
\* MMC5_FRAME_PERIOD, so it is always a multiple of 2^-40, the spacing of the
\* doubles from 4096 to 8192, where the period lies. Such a double d >= 0 is
\* kept as <<i, h, l>> with d = i + h / 2^20 + l / 2^40 and h, l < 2^20
Limb == 1048576

\* MMC5_FRAME_PERIOD = CPU_FREQ_NTSC / MMC5_FRAME_HZ = 1789772.5 / 240, the
\* double 0x1.d2162aaaaaaabp+12 = 7457.385416666667...
MMC5_FRAME_PERIOD == <<7457, 404138, 699051>>

\* The spacing of the doubles around a number with integer part i, in units
\* of 2^-40: 53 significant bits, so 2^-40 below 8192 and twice as much in
\* each binade above
RECURSIVE DblUlp(_)
DblUlp(i) == IF i < 8192 THEN 1 ELSE 2 * DblUlp(i \div 2)

\* The double nearest to the exact number x, ties to the even significand
\* (the rounding of every + and - of the language)
DblRound(x) ==
    LET ulp == DblUlp(x[1])
        q == x[3] \div ulp
        r == x[3] % ulp
        up == (2 * r > ulp) \/ (2 * r = ulp /\ q % 2 = 1)
        l == (IF up THEN q + 1 ELSE q) * ulp
        h == x[2] + (l \div Limb)
    IN  <<x[1] + (h \div Limb), h % Limb, l % Limb>>

\* x + n for a whole number n >= 0
DblAddInt(x, n) == DblRound(<<x[1] + n, x[2], x[3]>>)

\* x >= y
DblGeq(x, y) ==
    \/ x[1] > y[1]
    \/ x[1] = y[1] /\ x[2] > y[2]
    \/ x[1] = y[1] /\ x[2] = y[2] /\ x[3] >= y[3]

\* x - y for x >= y
DblSub(x, y) ==
    LET bl == IF x[3] < y[3] THEN 1 ELSE 0
        bh == IF x[2] - bl < y[2] THEN 1 ELSE 0
    IN  DblRound(<<x[1] - y[1] - bh,
                   (x[2] - bl - y[2]) + (bh * Limb),
                   (x[3] - y[3]) + (bl * Limb)>>)

\* Mmc5Square.reset(), and the fields the constructor sets
Mmc5Square_reset ==
    [isEnabled |-> FALSE, lengthCounterHalt |-> FALSE, envDecayDisable |-> FALSE,
     envDecayLoopEnable |-> FALSE, envReset |-> FALSE,
     envDecayRate |-> 0, envDecayCounter |-> 0, envVolume |-> 0,
     masterVolume |-> 0, dutyMode |-> 0, lengthCounter |-> 0,
     lengthReloadValue |-> 0, timerCounter |-> 0, timerPeriod |-> 0,
     dutyPos |-> 0, output |-> 0]

\* Mmc5Square.updateOutput()
Mmc5Square_updateOutput(sq) ==
    [sq EXCEPT !.output =
        IF sq.isEnabled /\ sq.lengthCounter > 0
        THEN sq.masterVolume * DUTY_LOOKUP[(sq.dutyMode * 8) + sq.dutyPos + 1]
        ELSE 0]

\* Mmc5Square.clockTimer(nCycles): the while loop adds (timerPeriod + 1) << 1
\* to the counter and steps the duty position until the counter is positive;
\* it runs k times, and the output follows the last duty position
Mmc5Square_clockTimer(sq, nCycles) ==
    LET t == sq.timerCounter - nCycles
        p == (sq.timerPeriod + 1) * 2
        k == IF t > 0 THEN 0 ELSE ((0 - t) \div p) + 1
    IN  IF k = 0 THEN [sq EXCEPT !.timerCounter = t]
        ELSE Mmc5Square_updateOutput(
                 [sq EXCEPT !.timerCounter = t + (k * p),
                            !.dutyPos = (@ + k) % 8])

\* Mmc5Square.clockEnvelope()
Mmc5Square_clockEnvelope(sq) ==
    LET env == IF sq.envReset
               THEN [sq EXCEPT !.envReset = FALSE,
                               !.envDecayCounter = sq.envDecayRate + 1,
                               !.envVolume = 15]
               ELSE IF sq.envDecayCounter - 1 <= 0
               THEN [sq EXCEPT !.envDecayCounter = sq.envDecayRate + 1,
                               !.envVolume =
                                   IF @ > 0 THEN @ - 1
                                   ELSE IF sq.envDecayLoopEnable THEN 15 ELSE 0]
               ELSE [sq EXCEPT !.envDecayCounter = @ - 1]
    IN  Mmc5Square_updateOutput(
            [env EXCEPT !.masterVolume =
                IF env.envDecayDisable THEN env.envDecayRate ELSE env.envVolume])

\* Mmc5Square.clockLengthCounter()
Mmc5Square_clockLengthCounter(sq) ==
    IF ~sq.lengthCounterHalt /\ sq.lengthCounter > 0
    THEN IF sq.lengthCounter = 1
         THEN Mmc5Square_updateOutput([sq EXCEPT !.lengthCounter = 0])
         ELSE [sq EXCEPT !.lengthCounter = @ - 1]
    ELSE sq

\* Mmc5Square.writeReg(addr, value)
Mmc5Square_writeReg(sq, addr, value) ==
    CASE addr \in {20480, 20484} ->
           LET w == [sq EXCEPT !.envDecayDisable = Bit(value, 4) = 1,
                               !.envDecayRate = value % 16,
                               !.lengthCounterHalt = Bit(value, 5) = 1,
                               !.envDecayLoopEnable = Bit(value, 5) = 1,
                               !.dutyMode = (value \div 64) % 4]
           IN  Mmc5Square_updateOutput(
                   [w EXCEPT !.masterVolume =
                       IF w.envDecayDisable THEN w.envDecayRate ELSE w.envVolume])
      [] addr \in {20481, 20485} -> sq
      [] addr \in {20482, 20486} ->
           [sq EXCEPT !.timerPeriod = (256 * ((@ \div 256) % 8)) + value]
      [] addr \in {20483, 20487} ->
           Mmc5Square_updateOutput(
               [sq EXCEPT !.timerPeriod = (@ % 256) + (256 * (value % 8)),
                          !.lengthReloadValue = LENGTH_LOOKUP[(value \div 8) + 1],
                          !.lengthCounter =
                              IF sq.isEnabled THEN LENGTH_LOOKUP[(value \div 8) + 1]
                              ELSE @,
                          !.envReset = TRUE])
      [] OTHER -> sq

\* A setEnabled that does not refresh the output
Mmc5Square_setEnabledStale(sq, value) ==
    [sq EXCEPT !.isEnabled = value,
               !.lengthCounter = IF value THEN @ ELSE 0]

\* Mmc5Square.setEnabled(value)
Mmc5Square_setEnabled(sq, value) ==
    Mmc5Square_updateOutput(
        [sq EXCEPT !.isEnabled = value,
                   !.lengthCounter = IF value THEN @ ELSE 0])

\* Mmc5Square.getLengthStatus()
Mmc5Square_getLengthStatus(sq) ==
    IF sq.lengthCounter = 0 \/ ~sq.isEnabled THEN 0 ELSE 1

\* Mmc5Audio.reset(), and the fields the constructor sets (the output scale,
\* a constant of the APU tables, is left out)
Mmc5Audio_reset ==
    [mapper |-> 5, square1 |-> Mmc5Square_reset, square2 |-> Mmc5Square_reset,
     frameCounter |-> <<0, 0, 0>>, pcmReadMode |-> FALSE, pcmIrqEnabled |-> FALSE,
     pcmOutput |-> 0]

\* Mmc5Audio.clock: while (this.frameCounter >= MMC5_FRAME_PERIOD)
RECURSIVE Mmc5Audio_frameClocks(_)
Mmc5Audio_frameClocks(a) ==
    IF DblGeq(a.frameCounter, MMC5_FRAME_PERIOD)
    THEN Mmc5Audio_frameClocks(
             [a EXCEPT !.frameCounter = DblSub(@, MMC5_FRAME_PERIOD),
                       !.square1 = Mmc5Square_clockEnvelope(
                                       Mmc5Square_clockLengthCounter(@)),
                       !.square2 = Mmc5Square_clockEnvelope(
                                       Mmc5Square_clockLengthCounter(@))])
    ELSE a

\* Mmc5Audio.clock(cpuCycles)
Mmc5Audio_clock(a, cpuCycles) ==
    Mmc5Audio_frameClocks(
        [a EXCEPT !.square1 = Mmc5Square_clockTimer(@, cpuCycles),
                  !.square2 = Mmc5Square_clockTimer(@, cpuCycles),
                  !.frameCounter = DblAddInt(@, cpuCycles)])

\* Mmc5Audio.readStatus()
Mmc5Audio_readStatus(a) ==
    Mmc5Square_getLengthStatus(a.square1) +
    (2 * Mmc5Square_getLengthStatus(a.square2))

\* Mmc5Audio.writeRegister(addr, value)
Mmc5Audio_writeRegister(a, addr, value) ==
    CASE addr \in 20480 .. 20483 ->
           [a EXCEPT !.square1 = Mmc5Square_writeReg(@, addr, value)]
      [] addr \in 20484 .. 20487 ->
           [a EXCEPT !.square2 = Mmc5Square_writeReg(@, addr, value)]
      [] addr = 20496 ->
           [a EXCEPT !.pcmReadMode = Bit(value, 0) = 1,
                     !.pcmIrqEnabled = Bit(value, 7) = 1]
      [] addr = 20497 ->
           IF ~a.pcmReadMode /\ value # 0
           THEN [a EXCEPT !.pcmOutput = value % 256] ELSE a
      [] addr = 20501 ->
           [a EXCEPT !.square1 = Mmc5Square_setEnabled(@, Bit(value, 0) = 1),
                     !.square2 = Mmc5Square_setEnabled(@, Bit(value, 1) = 1)]
      [] OTHER -> a

\* Mmc5Audio.setPcmOutput(value)
Mmc5Audio_setPcmOutput(a, value) == [a EXCEPT !.pcmOutput = value % 256]

\* JSON_PROPERTIES of Mmc5Square and of Mmc5Audio
Mmc5Square_saved ==
    {"isEnabled", "lengthCounterHalt", "envDecayDisable", "envDecayLoopEnable",
     "envReset", "envDecayRate", "envDecayCounter", "envVolume", "masterVolume",
     "dutyMode", "lengthCounter", "lengthReloadValue", "timerCounter",
     "timerPeriod", "dutyPos", "output"}
Mmc5Audio_saved == {"frameCounter", "pcmReadMode", "pcmIrqEnabled", "pcmOutput"}

\* Mmc5Audio.toJSON(): toJSON of utils.js, which copies the properties that
\* JSON_PROPERTIES lists, for the object and for each pulse channel
Mmc5Audio_toJSON(a) ==
    [f \in Mmc5Audio_saved \cup {"square1", "square2"} |->
        IF f \in Mmc5Audio_saved THEN a[f]
        ELSE [g \in Mmc5Square_saved |-> a[f][g]]]

\* Mmc5Audio.fromJSON(state): fromJSON of utils.js, which assigns the
\* properties that JSON_PROPERTIES lists, for the object and for each pulse
\* channel
Mmc5Audio_fromJSON(a, state) ==
    [f \in DOMAIN a |->
        IF f \in Mmc5Audio_saved THEN state[f]
        ELSE IF f \in {"square1", "square2"}
        THEN [g \in DOMAIN a[f] |->
                 IF g \in Mmc5Square_saved THEN state[f][g] ELSE a[f][g]]
        ELSE a[f]]

-----------------------------------------------------------------------------
(* The MMC5 audio as a state machine of its methods                        *)

\* The register writes made: enables, envelope and halt, length reloads,
\* sweep, timer low and the PCM registers
Mmc5Writes ==
    {<<20501, 1>>, <<20501, 2>>, <<20501, 3>>,
     <<20480, 159>>, <<20480, 63>>, <<20483, 24>>, <<20483, 8>>,
     <<20481, 255>>, <<20482, 255>>,
     <<20484, 159>>, <<20487, 24>>, <<20485, 255>>,
     <<20496, 129>>, <<20497, 64>>}

\* The cycle counts handed to clock: one short of a frame period, one past it
Mmc5Cycles == {1, 7457, 7458}

\* Bound of the audio specification: calls made
MaxMmc5Calls == 5

InitMmc5 ==
    /\ cpu = CPU_reset
    /\ ram = <<>>
    /\ mmc = Mmc5Audio_reset
    /\ pads = [i \in 1 .. 2 |-> NewController]
    /\ prg = ProgIdle
    /\ obs = [act |-> "init"]
    /\ hist = NoHist

\* The call that left the audio object a observed
Mmc5CallTo(a, act, addr, val) ==
    /\ mmc' = a
    /\ obs' = [act |-> act, addr |-> addr, val |-> val, pre |-> mmc]
    /\ hist' = [hist EXCEPT !.calls = @ + 1]
    /\ UNCHANGED <<cpu, ram, pads, prg>>

\* audio.writeRegister(addr, value)
Mmc5Write ==
    \E w \in Mmc5Writes :
        /\ hist.calls < MaxMmc5Calls
        /\ Mmc5CallTo(Mmc5Audio_writeRegister(mmc, w[1], w[2]), "write", w[1], w[2])

\* audio.clock(cpuCycles)
Mmc5Clock ==
    \E cycles \in Mmc5Cycles :
        /\ hist.calls < MaxMmc5Calls
        /\ Mmc5CallTo(Mmc5Audio_clock(mmc, cycles), "clock", 0, cycles)

\* audio.readStatus()
Mmc5Status ==
    /\ hist.calls < MaxMmc5Calls
    /\ Mmc5CallTo(mmc, "status", 0, Mmc5Audio_readStatus(mmc))

\* audio.reset()
Mmc5Reset ==
    /\ hist.calls < MaxMmc5Calls
    /\ Mmc5CallTo(Mmc5Audio_reset, "reset", 0, 0)

\* The PCM levels handed to setPcmOutput: a byte and a wider number
Mmc5PcmLevels == {200, 511}

\* audio.setPcmOutput(value)
Mmc5SetPcm ==
    \E value \in Mmc5PcmLevels :
        /\ hist.calls < MaxMmc5Calls
        /\ Mmc5CallTo(Mmc5Audio_setPcmOutput(mmc, value), "setPcm", 0, value)

\* state = audio.toJSON(), kept as the ghost snapshot
Mmc5Save ==
    /\ hist.calls < MaxMmc5Calls
    /\ hist.snap = <<>>
    /\ mmc' = mmc
    /\ obs' = [act |-> "toJSON", addr |-> 0, val |-> 0, pre |-> mmc]
    /\ hist' = [hist EXCEPT !.calls = @ + 1, !.snap = <<Mmc5Audio_toJSON(mmc)>>]
    /\ UNCHANGED <<cpu, ram, pads, prg>>

\* audio.fromJSON(state)
Mmc5Restore ==
    /\ hist.calls < MaxMmc5Calls
    /\ hist.snap # <<>>
    /\ Mmc5CallTo(Mmc5Audio_fromJSON(mmc, hist.snap[1]), "fromJSON", 0, 0)

NextMmc5 ==
    \/ Mmc5Write \/ Mmc5Clock \/ Mmc5Status \/ Mmc5Reset
    \/ Mmc5SetPcm \/ Mmc5Save \/ Mmc5Restore

SpecMmc5 == InitMmc5 /\ [][NextMmc5]_vars

\* The frame periods that can be taken from the frame counter x, one after
\* the other
RECURSIVE FramePeriodsIn(_)
FramePeriodsIn(x) ==
    IF DblGeq(x, MMC5_FRAME_PERIOD)
    THEN 1 + FramePeriodsIn(DblSub(x, MMC5_FRAME_PERIOD))
    ELSE 0

\* The frame clocks of a clock(cycles) call made with the frame counter at f
FrameClocksOf(f, cycles) == FramePeriodsIn(DblAddInt(f, cycles))

\* The pulse channel ch (1, 2) of audio object a
Channel(ch) == IF ch = 1 THEN "square1" ELSE "square2"
Pulse(a, ch) == a[Channel(ch)]

\* The length counter of a channel after the observed call, from the channel
\* before it (pre): each frame clock of a clock call takes one from a
\* counter that is not zero and not halted
LengthAfter(pre, ch) ==
    CASE obs.act = "clock" ->
           IF pre.lengthCounterHalt THEN pre.lengthCounter
           ELSE IF pre.lengthCounter > FrameClocksOf(obs.pre.frameCounter, obs.val)
           THEN pre.lengthCounter - FrameClocksOf(obs.pre.frameCounter, obs.val)
           ELSE 0
      [] obs.act = "write" /\ obs.addr = 20501 ->
           IF Bit(obs.val, ch - 1) = 0 THEN 0 ELSE pre.lengthCounter
      [] obs.act = "write" /\ obs.addr = 20483 + (4 * (ch - 1)) ->
           IF pre.isEnabled THEN LENGTH_LOOKUP[(obs.val \div 8) + 1]
           ELSE pre.lengthCounter
      [] obs.act = "reset" -> 0
      [] obs.act = "fromJSON" -> hist.snap[1][Channel(ch)].lengthCounter
      [] OTHER -> pre.lengthCounter

\* C38: for each MMC5 pulse channel the length counter is in 0..254; a frame
\* clock takes one from it only when it is non-zero and the halt flag is
\* clear; clearing the channel's bit in $5015 sets it to 0 and a write to
\* $5003/$5007 reloads it only while the channel is enabled; nothing else
\* changes it; the channel's status bit is 1 exactly when the channel is
\* enabled and the counter non-zero; the output is in 0..15 and 0 whenever
\* the status bit is 0; a write to $5001/$5005 changes no state
C38_Mmc5Pulse ==
    /\ \A ch \in {1, 2} :
          LET sq == Pulse(mmc, ch)
              status == Bit(Mmc5Audio_readStatus(mmc), ch - 1)
          IN  /\ sq.lengthCounter \in 0 .. 254
              /\ status = 1 <=> (sq.isEnabled /\ sq.lengthCounter # 0)
              /\ sq.output \in 0 .. 15
              /\ status = 0 => sq.output = 0
              /\ obs.act # "init" =>
                    sq.lengthCounter = LengthAfter(Pulse(obs.pre, ch), ch)
    /\ obs.act = "write" /\ obs.addr \in {20481, 20485} => mmc = obs.pre
    /\ obs.act = "status" =>
          /\ mmc = obs.pre
          /\ obs.val = Mmc5Audio_readStatus(mmc)

\* A frame clock took the length counter of channel 1 from 1 to 0 and its
\* output from 15 to 0
C38_Witness ==
    /\ obs.act = "clock" /\ obs.pre.square1.lengthCounter = 1
    /\ obs.pre.square1.output = 15
    /\ mmc.square1.lengthCounter = 0 /\ mmc.square1.output = 0

\* Channel 2 disabled through $5015 while sounding; a halted counter kept
\* by a frame clock; a reload refused while disabled; a sweep write
C38_WitnessDisable ==
    /\ obs.act = "write" /\ obs.addr = 20501 /\ obs.val = 1
    /\ obs.pre.square2.lengthCounter = 2 /\ obs.pre.square2.output = 15
    /\ mmc.square2.lengthCounter = 0 /\ mmc.square2.output = 0
C38_WitnessHalt ==
    /\ obs.act = "clock" /\ FrameClocksOf(obs.pre.frameCounter, obs.val) = 1
    /\ obs.pre.square1.isEnabled
    /\ obs.pre.square1.lengthCounterHalt /\ mmc.square1.lengthCounter = 254
C38_WitnessRefused ==
    /\ obs.act = "write" /\ obs.addr = 20483 /\ ~obs.pre.square1.isEnabled
    /\ mmc.square1.lengthReloadValue = 2 /\ mmc.square1.lengthCounter = 0
C38_WitnessSweep ==
    /\ obs.act = "write" /\ obs.addr = 20481 /\ obs.pre.square1.output = 15

\* A snapshot restored into an audio object whose channel 1 had counted down
\* since; two frame periods taken by one clock call
C38_WitnessRestore ==
    /\ obs.act = "fromJSON"
    /\ obs.pre.square1.lengthCounter = 1 /\ mmc.square1.lengthCounter = 2
C38_WitnessTwoFrames ==
    /\ obs.act = "clock" /\ FrameClocksOf(obs.pre.frameCounter, obs.val) = 2
    /\ obs.pre.square1.lengthCounter = 2 /\ mmc.square1.lengthCounter = 0

-----------------------------------------------------------------------------
(* PaletteTable (palette-table.js)                                         *)

\* The base palette loadNTSCPalette stores, entry i at index i + 1
NTSCPalette ==
    <<5526612, 7796, 528528, 3145864, 4456548, 6029360, 5506048, 3938304,
      2107904, 539136, 16384, 15360, 12860, 0, 0, 0,
      10000024, 543940, 3158764, 6037220, 8918192, 10490980, 9970208, 7879680,
      5528064, 2650624, 556032, 30248, 26232, 0, 0, 0,
      15527660, 5020396, 7896300, 11559660, 14964972, 15489204, 15493732, 13928480,
      10529280, 7652352, 5034016, 3722348, 3716300, 3947580, 0, 0,
      15527660, 11062508, 12369132, 13939436, 15511276, 15511252, 15512752, 14992528,
      13423224, 11984504, 11068052, 10019508, 10540772, 10527392, 0, 0>>

\* The base palette loadPALPalette stores, entry i at index i + 1
PALPalette ==
    <<5395026, 11796480, 10485760, 11599933, 7602281, 91, 95, 6208,
      12048, 543240, 26368, 1196544, 7153664, 0, 0, 0,
      12899815, 16728064, 14421538, 16729963, 14090399, 6818519, 6588, 21681,
      27227, 35843, 43776, 2918400, 10777088, 0, 0, 0,
      16316664, 16755516, 16742785, 16735173, 16730354, 14633471, 4681215, 46327,
      57599, 58229, 259115, 7911470, 15065624, 7895160, 0, 0,
      16777215, 16773822, 16300216, 16300248, 16758527, 16761855, 13095423, 10148607,
      8973816, 8650717, 12122296, 16119980, 16777136, 16308472, 0, 0>>

\* PaletteTable.constructor(): two arrays without entries, no emphasis
PaletteTable_constructor ==
    [curTable |-> [i \in 1 .. 64 |-> Undefined],
     emphTable |-> [e \in 1 .. 8 |-> Undefined],
     currentEmph |-> -1]

\* PaletteTable.getRed, getGreen, getBlue, getRgb
getRed(rgb) == (rgb \div 65536) % 256
getGreen(rgb) == (rgb \div 256) % 256
getBlue(rgb) == rgb % 256
getRgb(r, g, b) == (r * 65536) + (g * 256) + b

\* PaletteTable.makeTables: Math.min(255, Math.floor(c * factor * 1.3)) of a
\* channel c in 0..255, the factor being 0.75 (attenuated) or 1.0; the
\* doubles give the floor of the exact product for every c in 0..255
boosted(c, attenuated) ==
    LET v == IF attenuated THEN (c * 39) \div 40 ELSE (c * 13) \div 10
    IN  IF v > 255 THEN 255 ELSE v

\* PaletteTable.makeTables(): the entry of colour col under emphasis emph
emphasized(col, emph) ==
    getRgb(boosted(getRed(col), Bit(emph, 1) = 1 \/ Bit(emph, 2) = 1),
           boosted(getGreen(col), Bit(emph, 0) = 1 \/ Bit(emph, 2) = 1),
           boosted(getBlue(col), Bit(emph, 0) = 1 \/ Bit(emph, 1) = 1))

\* PaletteTable.makeTables()
makeTables(p) ==
    [p EXCEPT !.emphTable =
        [e \in 1 .. 8 |-> [i \in 1 .. 64 |-> emphasized(p.curTable[i], e - 1)]]]

\* PaletteTable.setEmphasis(emph)
setEmphasis(p, emph) ==
    IF emph # p.currentEmph
    THEN [p EXCEPT !.currentEmph = emph, !.curTable = p.emphTable[emph + 1]]
    ELSE p

\* PaletteTable.reset()
PaletteTable_reset(p) == setEmphasis(p, 0)

\* PaletteTable.loadNTSCPalette(), loadPALPalette(): the base palette is
\* stored in curTable, the tables are made, emphasis 0 is selected
loadPalette(p, base) == setEmphasis(makeTables([p EXCEPT !.curTable = base]), 0)
loadNTSCPalette(p) == loadPalette(p, NTSCPalette)
loadPALPalette(p) == loadPalette(p, PALPalette)

\* PaletteTable.getEntry(yiq)
getEntry(p, yiq) == p.curTable[yiq + 1]

-----------------------------------------------------------------------------
(* The palette table as a state machine of its methods; the variable mmc   *)
(* holds the PaletteTable object                                           *)

\* Bound of the palette specification: calls made
MaxPaletteCalls == 4

\* The ghost of the palette: the base palette loaded last (<<>>: none) and
\* the emphasis selected last
PaletteGhost(base, emph) == [base |-> base, emph |-> emph]

InitPalette ==
    /\ cpu = CPU_reset
    /\ ram = <<>>
    /\ mmc = PaletteTable_constructor
    /\ pads = [i \in 1 .. 2 |-> NewController]
    /\ prg = ProgIdle
    /\ obs = [act |-> "init"]
    /\ hist = [NoHist EXCEPT !.test = PaletteGhost(<<>>, 0)]

\* The call that left the palette table p observed
PaletteCallTo(p, act, arg, ghost) ==
    /\ mmc' = p
    /\ obs' = [act |-> act, arg |-> arg, preEmph |-> mmc.currentEmph]
    /\ hist' = [hist EXCEPT !.calls = @ + 1, !.test = ghost]
    /\ UNCHANGED <<cpu, ram, pads, prg>>

\* palTable.loadNTSCPalette()
PaletteLoadNTSC ==
    /\ hist.calls < MaxPaletteCalls
    /\ PaletteCallTo(loadNTSCPalette(mmc), "loadNTSC", 0,
                     PaletteGhost(NTSCPalette, 0))

\* palTable.loadPALPalette()
PaletteLoadPAL ==
    /\ hist.calls < MaxPaletteCalls
    /\ PaletteCallTo(loadPALPalette(mmc), "loadPAL", 0,
                     PaletteGhost(PALPalette, 0))

\* palTable.reset(), after a palette was loaded
PaletteReset ==
    /\ hist.calls < MaxPaletteCalls
    /\ hist.test.base # <<>>
    /\ PaletteCallTo(PaletteTable_reset(mmc), "reset", 0,
                     PaletteGhost(hist.test.base, 0))

\* palTable.setEmphasis(emph), after a palette was loaded
PaletteSetEmphasis ==
    \E emph \in 0 .. 7 :
        /\ hist.calls < MaxPaletteCalls
        /\ hist.test.base # <<>>
        /\ PaletteCallTo(setEmphasis(mmc, emph), "setEmphasis", emph,
                         PaletteGhost(hist.test.base, emph))

NextPalette ==
    PaletteLoadNTSC \/ PaletteLoadPAL \/ PaletteReset \/ PaletteSetEmphasis

SpecPalette == InitPalette /\ [][NextPalette]_vars

\* C39: after calls of loadNTSCPalette, loadPALPalette, reset and
\* setEmphasis that start with a load, getEntry(i) is for every i in 0..63
\* entry i of the emphasis table of the emphasis selected last (0 after a
\* load or reset), made from the base palette loaded last
C39_EntryFollowsSelection ==
    hist.test.base # <<>> =>
        \A i \in 0 .. 63 :
            getEntry(mmc, i) = emphasized(hist.test.base[i + 1], hist.test.emph)

\* The entries are those of the selected emphasis table, or, after a load
\* that found emphasis 0 selected, those of the base palette as loaded
EntryOfTableOrBase ==
    hist.test.base # <<>> =>
        \/ C39_EntryFollowsSelection
        \/ /\ obs.act \in {"loadNTSC", "loadPAL", "reset", "setEmphasis"}
           /\ mmc.currentEmph = 0 /\ hist.test.emph = 0
           /\ mmc.curTable = hist.test.base

\* The emphasis tables are always those of the base palette loaded last
TablesOfLastBase ==
    hist.test.base # <<>> =>
        \A e \in 0 .. 7, i \in 0 .. 63 :
            mmc.emphTable[e + 1][i + 1] = emphasized(hist.test.base[i + 1], e)

\* A load that found another emphasis selected: the entries follow
PaletteReloadAfterEmphasis ==
    /\ obs.act = "loadPAL" /\ obs.preEmph = 5
    /\ C39_EntryFollowsSelection

-----------------------------------------------------------------------------
(* Claims on the cycles a step returns                                     *)

\* The state follows a cpu.step() call
AfterStep == obs.act \in {"step", "stall", "opStep", "flowStep"}

\* The decode table's entry of the opcode the observed step fetched
FetchedEntry == OPDATA[FetchedOpcode(obs.log) + 1]

\* The cycles the observed step returned beyond the base cycles of the
\* instruction it executed
ExtraCycles == obs.cycles - (FetchedEntry \div 16777216)

\* The address of the vector of interrupt type t
VectorOf(t) ==
    CASE t = IRQ_NMI -> 65530 [] t = IRQ_RESET -> 65532 [] OTHER -> 65534

\* In a log the sequence dispatched at entry d read its vector, and the
\* instruction boundary at entry k is at the address the vector held
VectorFetched(log, d, k) ==
    /\ log[k].op = "boundary"
    /\ \E x \in d + 1 .. k - 1, y \in d + 1 .. k - 1 :
          /\ log[x].op = "read" /\ log[x].a = VectorOf(log[d].a)
          /\ log[y].op = "read" /\ log[y].a = VectorOf(log[d].a) + 1
          /\ log[k].a = log[x].v + (256 * log[y].v)

\* C40: every step() adds to cycleCount exactly the value it returns: 1 for
\* a stall cycle, which fetches nothing; for an instruction the base cycles
\* of the decode table plus at most two penalty cycles, which only a branch
\* or an indexed addressing mode (absolute,X, absolute,Y, (d),Y) adds, and
\* at least 2; a step that dispatches RESET, NMI or IRQ executes the
\* instruction at the vector in the same call and returns the cycles of
\* that instruction alone
C40_StepReturnsCyclesAdded ==
    AfterStep =>
        /\ cpu.cycleCount = obs.pre.cycleCount + obs.cycles
        /\ IF obs.pre.cyclesToHalt > 0
           THEN /\ obs.cycles = 1
                /\ obs.log = <<>>
           ELSE /\ \E k \in DOMAIN obs.log : obs.log[k].op = "boundary"
                /\ obs.cycles >= 2
                /\ ExtraCycles \in 0 .. 2
                /\ ExtraCycles > 0 =>
                      (FetchedEntry \div 256) % 256 \in {1, 8, 9, 11}
                /\ \A d \in DOMAIN obs.log :
                      obs.log[d].op = "dispatch" =>
                          \E k \in d + 1 .. Len(obs.log) :
                              VectorFetched(obs.log, d, k)

\* A step dispatched an NMI, executed the two-cycle instruction at the
\* vector and returned 2
C40_Witness ==
    /\ obs.act = "step" /\ IRQ_NMI \in DispatchedTypes(obs.log)
    /\ obs.cycles = 2 /\ cpu.cycleCount = obs.pre.cycleCount + 2
    /\ obs.pre.cycleCount > 0

\* A stall cycle; a RESET and an IRQ dispatched
C40_WitnessStall ==
    /\ obs.act = "stall" /\ obs.cycles = 1 /\ obs.pre.cycleCount > 0
C40_WitnessReset ==
    /\ obs.act = "step" /\ IRQ_RESET \in DispatchedTypes(obs.log)
C40_WitnessIrq ==
    /\ obs.act = "step" /\ IRQ_NORMAL \in DispatchedTypes(obs.log)

\* A step that returned penalty cycles
C40_WitnessPenalty ==
    /\ AfterStep /\ obs.pre.cyclesToHalt = 0 /\ ExtraCycles = 2

=============================================================================
